---- MODULE Spec2Model ----
(***************************************************************************)
(* Call-control gateway: the life of one CallRun (workflow run) under the  *)
(* media-session entry point (websocket_endpoint), the status-callback     *)
(* processor (_process_status_update) and the media pipeline's completion  *)
(* hook (on_pipeline_finished).  Every handler is an asyncio task; a task  *)
(* can be interleaved with the others at each await, so each awaited       *)
(* database call or collaborator call is one action.                       *)
(*                                                                         *)
(* Strings whose characters the code inspects (status values, tags, retry  *)
(* reasons) are sequences of one-character strings.                        *)
(***************************************************************************)
EXTENDS Integers, Sequences, FiniteSets, TLC

\* ------------------------------------------------------------------ bounds
\* handler invocations (media-session connects and status callbacks together)
\* that are started for the run
MaxTasks == 2

Conns == 1..MaxTasks
Cbs == 1..MaxTasks

\* --------------------------------------------------------------- constants
INITIALIZED == "initialized"
RUNNING == "running"
COMPLETED == "completed"

NoCampaign == 0
CampaignIds == {NoCampaign, 7}
NoProvider == "none"
NoConfig == "no_config"
NotLoaded == "not_loaded"
OrgProviders == {"twilio", "itniotech", NoConfig}
NoQueuedRun == 0

CloseNotFound == 4404
CloseConflict == 4409
CloseBadRequest == 4400
CloseInternalError == 1011
NotClosed == 0

\* status values, as the characters of the Python strings
Completed == <<"c","o","m","p","l","e","t","e","d">>
Failed == <<"f","a","i","l","e","d">>
Busy == <<"b","u","s","y">>
NoAnswer == <<"n","o","-","a","n","s","w","e","r">>
Canceled == <<"c","a","n","c","e","l","e","d">>
Ringing == <<"r","i","n","g","i","n","g">>
Statuses == {Completed, Failed, Busy, NoAnswer, Canceled, Ringing}

NotConnected == <<"n","o","t","_","c","o","n","n","e","c","t","e","d">>
TelephonyPrefix == <<"t","e","l","e","p","h","o","n","y","_">>
UserSpeech == <<"u","s","e","r","_","s","p","e","e","c","h">>

\* ------------------------------------------------------------ string code
\* str.replace("-", "_")
ReplaceHyphenMut(s) == s
ReplaceHyphen(s) == [i \in 1..Len(s) |-> IF s[i] = "-" THEN "_" ELSE s[i]]

\* str.lower() on the characters that occur in vendor status values
LowerChar(ch) ==
    CASE ch = "B" -> "b"
      [] ch = "N" -> "n"
      [] ch = "F" -> "f"
      [] ch = "C" -> "c"
      [] OTHER -> ch
Lower(s) == [i \in 1..Len(s) |-> LowerChar(s[i])]

\* call_tags.extend(["not_connected", f"telephony_{status.status.lower()}"])
FailureTagsMut(status) == <<TelephonyPrefix \o Lower(status)>>
FailureTags(status) == <<NotConnected, TelephonyPrefix \o Lower(status)>>

\* ----------------------------------------------------------- persistence
\* db_client.get_workflow_run returns None for a missing run
NoRun ==
    [exists |-> FALSE, state |-> INITIALIZED, is_completed |-> FALSE,
     campaign_id |-> NoCampaign, queued_run_id |-> NoQueuedRun,
     provider |-> NoProvider, call_tags |-> <<>>, logs |-> <<>>]

\* db_client.create_workflow_run: a fresh run is INITIALIZED, not completed
NewRun(campaign, provider) ==
    [exists |-> TRUE, state |-> INITIALIZED, is_completed |-> FALSE,
     campaign_id |-> campaign,
     queued_run_id |-> IF campaign = NoCampaign THEN NoQueuedRun ELSE 3,
     provider |-> provider, call_tags |-> <<>>, logs |-> <<>>]

\* db_client.update_workflow_run(run_id, **fields): the fields passed are
\* written, every other field of the stored run is kept
UpdateWorkflowRun(r, fields) ==
    [k \in DOMAIN r |-> IF k \in DOMAIN fields THEN fields[k] ELSE r[k]]

\* ------------------------------------------------- websocket_endpoint code
\* the guards of websocket_endpoint in the order the code evaluates them
ConnectGuardAnyLiveState(r, wfExists, orgProvider) ==
    IF ~r.exists THEN "run_not_found"
    ELSE IF ~wfExists THEN "workflow_not_found"
    ELSE IF r.state = COMPLETED THEN "wrong_state"
    ELSE IF r.provider = NoProvider THEN "no_provider_type"
    ELSE IF orgProvider = NoConfig THEN "provider_error"
    ELSE IF orgProvider # r.provider THEN "provider_mismatch"
    ELSE "ok"
ConnectGuardNoMismatch(r, wfExists, orgProvider) ==
    IF ~r.exists THEN "run_not_found"
    ELSE IF ~wfExists THEN "workflow_not_found"
    ELSE IF r.state # INITIALIZED THEN "wrong_state"
    ELSE IF r.provider = NoProvider THEN "no_provider_type"
    ELSE IF orgProvider = NoConfig THEN "provider_error"
    ELSE "ok"
ConnectGuard(r, wfExists, orgProvider) ==
    IF ~r.exists THEN "run_not_found"
    ELSE IF ~wfExists THEN "workflow_not_found"
    ELSE IF r.state # INITIALIZED THEN "wrong_state"
    ELSE IF r.provider = NoProvider THEN "no_provider_type"
    ELSE IF orgProvider = NoConfig THEN "provider_error"
    ELSE IF orgProvider # r.provider THEN "provider_mismatch"
    ELSE "ok"

\* the guard outcomes that are decided after get_telephony_provider was called
ProviderKinds == {"provider_error", "provider_mismatch", "ok"}

FailureKinds ==
    {"run_not_found", "workflow_not_found", "wrong_state",
     "no_provider_type", "provider_mismatch"}

\* the code each websocket.close(...) of websocket_endpoint passes
CloseCodeMut(kind) ==
    CASE kind = "run_not_found" -> CloseNotFound
      [] kind = "workflow_not_found" -> CloseNotFound
      [] kind = "wrong_state" -> CloseNotFound
      [] kind = "no_provider_type" -> CloseBadRequest
      [] kind = "provider_mismatch" -> CloseBadRequest
      [] kind = "provider_error" -> CloseInternalError
      [] OTHER -> NotClosed
CloseCode(kind) ==
    CASE kind = "run_not_found" -> CloseNotFound
      [] kind = "workflow_not_found" -> CloseNotFound
      [] kind = "wrong_state" -> CloseConflict
      [] kind = "no_provider_type" -> CloseBadRequest
      [] kind = "provider_mismatch" -> CloseBadRequest
      [] kind = "provider_error" -> CloseInternalError
      [] OTHER -> NotClosed

\* where websocket_endpoint continues once the guards are evaluated
AfterGuardRunningFirst(kind) ==
    IF kind \in {"ok", "provider_error"} THEN "set_running" ELSE "closed"
AfterGuardMut(kind) == IF kind = "ok" THEN "handle_websocket" ELSE "closed"
AfterGuard(kind) == IF kind = "ok" THEN "set_running" ELSE "closed"

\* -------------------------------------------- _process_status_update code
FailureStatuses == {Failed, Busy, NoAnswer, Canceled}
RetryStatuses == {Busy, NoAnswer}

\* the step that follows the callback-log write
AfterLogAlwaysComplete(status, campaign) ==
    IF campaign # NoCampaign THEN "release" ELSE "complete"
AfterLogPublishFirst(status, campaign) ==
    IF status = Completed \/ status \in FailureStatuses
    THEN (IF campaign = NoCampaign THEN "complete"
          ELSE IF status \in RetryStatuses THEN "publish" ELSE "release")
    ELSE "done"
AfterLogMut(status, campaign) ==
    IF status = Completed \/ status \in FailureStatuses
    THEN "release"
    ELSE "done"
AfterLog(status, campaign) ==
    IF status = Completed \/ status \in FailureStatuses
    THEN (IF campaign # NoCampaign THEN "release" ELSE "complete")
    ELSE "done"

\* the step that follows release_call_slot
AfterReleaseNoRetry(status, campaign) == "complete"
AfterRelease(status, campaign) ==
    IF status # Completed /\ status \in RetryStatuses /\ campaign # NoCampaign
    THEN "publish"
    ELSE "complete"

\* publisher.publish_retry_needed(workflow_run_id=..., reason=..., ...)
RetrySignal(status, r) ==
    [run_id |-> 1, reason |-> ReplaceHyphen(status),
     campaign_id |-> r.campaign_id, queued_run_id |-> r.queued_run_id]

\* the fields of the final update_workflow_run of _process_status_update
CompletionFields(status, r) ==
    IF status = Completed
    THEN [is_completed |-> TRUE, state |-> COMPLETED]
    ELSE [is_completed |-> TRUE, state |-> COMPLETED,
          call_tags |-> r.call_tags \o FailureTags(status)]

\* the entry appended to logs["telephony_status_callbacks"]
CallbackLogEntry(status) == [status |-> status, call_id |-> "CA1"]

\* ------------------------------------------- provider factory (factory.py)
\* what the organization's TELEPHONY_CONFIGURATION holds: nothing, a value
\* with no "provider" key, or a value with that discriminant
NoDiscriminant == "no_discriminant"
UnknownVendor == "acme"
FactoryVendors == {"twilio", "vonage", "vobiz", "cloudonix", "itniotech"}
ConfigError == "ValueError"

\* save_telephony_configuration: the config_value stored for request.provider,
\* or the 400 answer that stores nothing
SaveRejected == "http_400"
SaveTelephonyConfiguration(requestProvider) ==
    IF requestProvider \in {"twilio", "vonage", "vobiz", "cloudonix", "livekit"}
    THEN requestProvider
    ELSE SaveRejected

\* the request discriminants a client can post
RequestProviders == FactoryVendors \cup {"livekit", UnknownVendor}

\* the stored configurations: those save_telephony_configuration writes, and
\* those written by other means (none, no discriminant, itniotech, unknown)
StoredConfigs ==
    {NoConfig, NoDiscriminant, "itniotech", UnknownVendor}
        \cup ({SaveTelephonyConfiguration(p) : p \in RequestProviders} \ {SaveRejected})

\* load_telephony_config: the "provider" of the dictionary returned, or the
\* ValueError raised
LoadTelephonyConfigNoDefault(stored) ==
    IF stored = NoConfig \/ stored = NoDiscriminant THEN ConfigError
    ELSE IF stored \in FactoryVendors THEN stored
    ELSE ConfigError
LoadTelephonyConfig(stored) ==
    IF stored = NoConfig THEN ConfigError
    ELSE LET provider == IF stored = NoDiscriminant THEN "twilio" ELSE stored
         IN IF provider \in FactoryVendors THEN provider ELSE ConfigError

\* get_telephony_provider: the PROVIDER_NAME of the instance built, or the
\* ValueError raised
GetTelephonyProvider(stored) ==
    LET provider_type == LoadTelephonyConfig(stored)
    IN IF provider_type \in FactoryVendors THEN provider_type ELSE ConfigError

\* the organizations a media-session connect is made for, by stored
\* discriminant
WsStoredConfigs == {"twilio", "itniotech", "livekit", NoConfig}

\* what websocket_endpoint gets from get_telephony_provider: the
\* PROVIDER_NAME, or the exception that takes it to its except clause
OrgProviderOf(stored) ==
    IF GetTelephonyProvider(stored) = ConfigError THEN NoConfig
    ELSE GetTelephonyProvider(stored)

\* ItniotechProvider.handle_websocket: the frames the vendor sends, each with
\* its event and the identifiers of its start data ("" for a missing key)
Frames ==
    [event : {"connected", "start", "media"},
     streamSid : {"", "S1"}, streamId : {"", "S2"}, stream_id : {"", "S3"},
     callSid : {"", "C1"}, callId : {"", "C2"}, call_id : {"", "C3"}]

\* Python's a or b over strings
OrStr(a, b) == IF a = "" THEN b ELSE a
StreamSid(frame) == OrStr(OrStr(frame.streamSid, frame.streamId), frame.stream_id)
CallSid(frame) == OrStr(OrStr(frame.callSid, frame.callId), frame.call_id)

\* the checks on the frame taken as the start frame
StartFrameNoCallSid(frame) ==
    IF frame.event # "start" THEN "rejected"
    ELSE IF StreamSid(frame) = "" THEN "rejected"
    ELSE "start"
StartFrame(frame) ==
    IF frame.event # "start" THEN "rejected"
    ELSE IF StreamSid(frame) = "" \/ CallSid(frame) = "" THEN "rejected"
    ELSE "start"

\* the handshake over the frames received: "start" hands off to the
\* pipeline, "rejected" closes with 4400, "raised" is receive_text failing
\* because the peer sent nothing more
HandshakeOutcomes == {"start", "rejected", "raised"}
ItniotechHandshake(messages) ==
    IF Len(messages) = 0 THEN "raised"
    ELSE IF messages[1].event = "connected"
    THEN (IF Len(messages) < 2 THEN "raised" ELSE StartFrame(messages[2]))
    ELSE StartFrame(messages[1])

\* LiveKitProvider.handle_websocket: closes at once, starts no pipeline
LiveKitHandleWebsocket == [pc |-> "closed", code |-> CloseBadRequest]

\* provider.handle_websocket of the provider websocket_endpoint resolved:
\* where the connection continues and the close code, NotClosed when the
\* connection stays open
HandleWebsocket(provider, handshake) ==
    IF provider = "livekit" THEN LiveKitHandleWebsocket
    ELSE IF handshake = "start" THEN [pc |-> "run_pipeline", code |-> NotClosed]
    ELSE IF handshake = "rejected" THEN [pc |-> "closed", code |-> CloseBadRequest]
    ELSE [pc |-> "closed", code |-> CloseInternalError]

\* get_all_telephony_providers: the classes tried by webhook detection
DetectableProviders == <<"twilio", "vobiz", "vonage", "itniotech">>
DetectableSet == {DetectableProviders[i] : i \in 1..Len(DetectableProviders)}
Undetected == "undetected"

\* _detect_provider: the first class of the list whose can_handle_webhook
\* answers true for the request, None when there is none
RECURSIVE DetectFrom(_, _, _)
DetectFrom(list, i, canHandle) ==
    IF i > Len(list) THEN Undetected
    ELSE IF canHandle[list[i]] THEN list[i]
    ELSE DetectFrom(list, i + 1, canHandle)
DetectProviderLastMatch(canHandle) ==
    DetectFrom([i \in 1..Len(DetectableProviders) |->
                   DetectableProviders[Len(DetectableProviders) + 1 - i]],
               1, canHandle)
DetectProvider(canHandle) == DetectFrom(DetectableProviders, 1, canHandle)

\* ------------------------------------------ inbound validation pipeline
Valid == "VALID"
WorkflowNotFound == "WORKFLOW_NOT_FOUND"
AccountValidationFailed == "ACCOUNT_VALIDATION_FAILED"
ProviderMismatch == "PROVIDER_MISMATCH"
PhoneNumberNotConfigured == "PHONE_NUMBER_NOT_CONFIGURED"
SignatureValidationFailed == "SIGNATURE_VALIDATION_FAILED"
QuotaExceeded == "QUOTA_EXCEEDED"

\* config.value.get("provider") of _validate_organization_provider_config:
\* None for a value without the key
StoredProvider(stored) == IF stored = NoDiscriminant THEN "None" ELSE stored

\* _validate_organization_provider_config; raised: get_configuration or
\* validate_account_id raised inside its try block
ValidateOrganizationProviderConfigNoMismatch(hasAccountId, stored, detected, accountOk, raised) ==
    IF ~hasAccountId THEN AccountValidationFailed
    ELSE IF raised THEN AccountValidationFailed
    ELSE IF stored = NoConfig THEN AccountValidationFailed
    ELSE IF ~accountOk THEN AccountValidationFailed
    ELSE Valid
ValidateOrganizationProviderConfig(hasAccountId, stored, detected, accountOk, raised) ==
    IF ~hasAccountId THEN AccountValidationFailed
    ELSE IF raised THEN AccountValidationFailed
    ELSE IF stored = NoConfig THEN AccountValidationFailed
    ELSE IF StoredProvider(stored) # detected THEN ProviderMismatch
    ELSE IF ~accountOk THEN AccountValidationFailed
    ELSE Valid

\* the signature step of _validate_inbound_request: which header, if any, is
\* handed to provider_instance.verify_inbound_signature
SignatureToVerifyAnyHeader(detected, xTwilio, xVobiz) ==
    IF xTwilio THEN "x_twilio_signature"
    ELSE IF xVobiz THEN "x_vobiz_signature"
    ELSE "none"
SignatureToVerify(detected, xTwilio, xVobiz) ==
    IF detected = "twilio" /\ xTwilio THEN "x_twilio_signature"
    ELSE IF detected = "vobiz" /\ xVobiz THEN "x_vobiz_signature"
    ELSE "none"

\* the answers of handle_inbound_telephony
NoResponse == [kind |-> "none", provider |-> Undetected, error |-> Valid]
GenericHangup == [kind |-> "generic_hangup", provider |-> Undetected, error |-> Valid]
ValidationErrorResponse(provider, error) ==
    [kind |-> "validation_error", provider |-> provider, error |-> error]
InboundResponse(provider) ==
    [kind |-> "inbound_response", provider |-> provider, error |-> Valid]
RaisedError == [kind |-> "raised", provider |-> Undetected, error |-> Valid]

\* the except clauses of handle_inbound_telephony: the answer to an
\* exception raised at the given step
FaultResponseUncaught(step) ==
    IF step \in {"create", "respond"} THEN RaisedError ELSE GenericHangup
FaultResponse(step) == GenericHangup

\* ---------------------------------------------------------- initiate_call
\* ItniotechProvider.validate_config over the fields the constructor keeps;
\* a field is its string value ("" when missing), from_numbers a list
ItniotechValidateConfigAnyField(config) ==
    config.api_key # "" \/ config.api_secret # "" \/ config.from_numbers # <<>>
ItniotechValidateConfig(config) ==
    config.api_key # "" /\ config.api_secret # "" /\ config.from_numbers # <<>>

ItniotechConfigs ==
    [api_key : {"", "key"}, api_secret : {"", "secret"},
     from_numbers : {<<>>, <<"+14155550100">>}]

\* the decimal digits of n, most significant first
DigitChars == <<"0", "1", "2", "3", "4", "5", "6", "7", "8", "9">>
RECURSIVE Decimal(_)
Decimal(n) ==
    IF n < 10 THEN <<DigitChars[n + 1]>>
    ELSE Append(Decimal(n \div 10), DigitChars[(n % 10) + 1])

\* the format specification 08d: zero padding to at least eight characters
RECURSIVE ZeroPad(_, _)
ZeroPad(digits, width) ==
    IF Len(digits) >= width THEN digits ELSE ZeroPad(<<"0">> \o digits, width)
Format08d(n) == ZeroPad(Decimal(n), 8)

\* int(str(uuid.uuid4()).replace("-", "")[:8], 16) % 100000000, for the
\* integer value hex8 of the first eight hexadecimal digits
NumericSuffix(hex8) == hex8 % 100000000

OutboundPrefix == <<"W", "R", "-", "T", "E", "L", "-", "O", "U", "T", "-">>

\* f"WR-TEL-OUT-{numeric_suffix:08d}"
WorkflowRunNameNoModulo(hex8) == OutboundPrefix \o Format08d(hex8)
WorkflowRunName(hex8) == OutboundPrefix \o Format08d(NumericSuffix(hex8))

\* values of the first eight hexadecimal digits of a uuid4
Hex8Values == {0, 42, 99999999, 100000000, 305419896, 2147483647}

\* request.phone_number or user_configuration.test_phone_number ("" stands
\* for None and for the empty string, both falsy)
PhoneNumberRequestOnly(requestNumber, testNumber) == requestNumber
PhoneNumber(requestNumber, testNumber) ==
    IF requestNumber # "" THEN requestNumber ELSE testNumber

\* the query string of webhook_url: the identifiers it embeds
WebhookUrl(workflowId, userId, runId, organizationId) ==
    [workflow_id |-> workflowId, user_id |-> userId,
     workflow_run_id |-> runId, organization_id |-> organizationId]

\* {"provider": provider.PROVIDER_NAME, **(result.provider_metadata or {})}
\* as the set of its items; metadata is a set of items without a "provider" key
GatheredContext(provider, metadata) == {<<"provider", provider>>} \cup metadata

\* the answers of initiate_call: an HTTPException, the success message, or an
\* exception that leaves the handler
BadRequest == 400
PaymentRequired == 402
HttpError(status, detail) == [kind |-> "http_exception", status |-> status, detail |-> detail]
Unhandled(exception) == [kind |-> "unhandled", status |-> 500, detail |-> exception]
SuccessMessage(name) == [kind |-> "success", status |-> 200, detail |-> name]
NotAnswered == [kind |-> "none", status |-> 0, detail |-> "none"]

\* ------------------------------------------------------------------ state
VARIABLES
    run,          \* the stored CallRun
    ws,           \* websocket_endpoint tasks
    cb,           \* status-callback tasks
    releases,     \* release_call_slot invocations, per invoking task
    retries,      \* retry-needed signals published, per callback task
    inb,          \* the handle_inbound_telephony task
    factory,      \* the last get_telephony_provider call and its outcome
    out,          \* the initiate_call task
    call,         \* the last call of a provider-contract function
    pipe          \* the media pipeline of a session and its event handlers

vars == <<run, ws, cb, releases, retries, inb, factory, out, call, pipe>>

\* the fields of the run a handler keeps from its read of the run
Snapshot(r) ==
    [call_tags |-> r.call_tags, logs |-> r.logs,
     campaign_id |-> r.campaign_id, queued_run_id |-> r.queued_run_id]
NoSnapshot == Snapshot(NoRun)

WsIdle ==
    [pc |-> "idle", snap |-> NoSnapshot, wfExists |-> FALSE,
     org |-> NotLoaded, stored |-> NotLoaded, kind |-> "none",
     code |-> NotClosed, afterAccept |-> FALSE, wroteRunning |-> FALSE,
     handedOff |-> FALSE]

\* handle_twilio_status_callback up to the processing of the update: a run
\* that is not found is ignored, a signature header (x-webhook-signature)
\* that the provider does not verify is rejected; signed is the presence of
\* the header, valid what verify_webhook_signature returns for it
AfterReceiveNoVerify(runExists, signed, valid) ==
    IF ~runExists THEN "ignored" ELSE "log"
AfterReceive(runExists, signed, valid) ==
    IF ~runExists THEN "ignored"
    ELSE IF signed /\ ~valid THEN "rejected"
    ELSE "log"

\* what a status-callback handler answers at each of its terminal positions:
\* the returned body's status under HTTP 200, or the server error of an
\* exception that nothing in the handler catches
CallbackAnswer(pc) ==
    CASE pc = "done" -> [http |-> 200, status |-> "success"]
      [] pc = "ignored" -> [http |-> 200, status |-> "ignored"]
      [] pc = "rejected" -> [http |-> 200, status |-> "error"]
      [] pc = "faulted" -> [http |-> 500, status |-> "none"]
      [] OTHER -> [http |-> 0, status |-> "none"]

CbIdle == [pc |-> "idle", status |-> Ringing, snap |-> NoSnapshot]

\* what check 2 of the pipeline reads: the webhook's account id, the stored
\* configuration, validate_account_id's answer, an exception
NoAccountInput ==
    [hasAccountId |-> FALSE, stored |-> NoConfig, accountOk |-> FALSE,
     raised |-> FALSE]

\* the inbound webhook task before the request arrives
InbIdle ==
    [pc |-> "idle", xTwilio |-> FALSE, xVobiz |-> FALSE,
     canHandle |-> [p \in DetectableSet |-> FALSE],
     provider |-> Undetected, direction |-> "none", evaluated |-> <<>>,
     account |-> NoAccountInput, error |-> Valid,
     verified |-> "none", signatureOk |-> FALSE,
     quotaChecked |-> FALSE, call_type |-> "none", mode |-> NoProvider,
     fault |-> "none", response |-> NoResponse]

FactoryIdle == [called |-> FALSE, stored |-> NoConfig, config |-> ConfigError,
                provider |-> ConfigError]

\* the initiate_call task before the request arrives
OutIdle ==
    [pc |-> "idle", provider |-> ConfigError, evaluated |-> <<>>,
     requestNumber |-> "", testNumber |-> "", number |-> "",
     runIdSupplied |-> FALSE, created |-> 0, newRun |-> NoRun, name |-> <<>>,
     call_type |-> "none", mode |-> NoProvider, calls |-> 0, metadata |-> {},
     webhook |-> WebhookUrl("none", "none", "none", "none"),
     gathered |-> {}, response |-> NotAnswered]

\* ------------------------------------------------- the provider contract
\* LiveKitProvider.validate_config over the fields the constructor keeps
LiveKitValidateConfig(config) ==
    /\ config.server_url # "" /\ config.api_key # ""
    /\ config.api_secret # "" /\ config.sip_trunk_id # ""

LiveKitConfigs ==
    [server_url : {"", "wss://livekit"}, api_key : {"", "key"},
     api_secret : {"", "secret"}, sip_trunk_id : {"", "trunk"},
     from_numbers : {<<>>, <<"+14155550100">>}]

\* TELEPHONY_ERROR_MESSAGES: the message fixed for each error of the table
GeneralAuthFailed == "GENERAL_AUTH_FAILED"
UnlistedError == "UNLISTED"
TableErrors ==
    {WorkflowNotFound, AccountValidationFailed, ProviderMismatch,
     PhoneNumberNotConfigured, SignatureValidationFailed, QuotaExceeded,
     GeneralAuthFailed}
TelephonyErrorMessages == [e \in TableErrors |-> [message_for |-> e]]

\* the values generate_validation_error_response is given
ErrorTypes == TableErrors \cup {UnlistedError}

\* ItniotechProvider.generate_validation_error_response: the parts of the
\* TwiML rendered
ItniotechValidationErrorResponse(error_type) ==
    LET message == IF error_type \in DOMAIN TelephonyErrorMessages
                   THEN TelephonyErrorMessages[error_type]
                   ELSE TelephonyErrorMessages[GeneralAuthFailed]
    IN [media_type |-> "application/xml",
        content |-> <<[say |-> "Sorry, there was an error validating your call."],
                      message, [hangup |-> TRUE]>>]

\* LiveKitProvider.generate_validation_error_response: str(error_type)
LiveKitValidationErrorResponse(error_type) ==
    [media_type |-> "text/plain", content |-> <<[raw |-> error_type]>>]

\* dict.get: a key the payload lacks is Absent in the model
Absent == "absent"
None == "None"
Get(data, key, default) == IF data[key] = Absent THEN default ELSE data[key]

\* Python's a or b over strings and None
Or(a, b) == IF a = None \/ a = "" THEN b ELSE a

\* StatusCallbackRequest.from_twilio
FromTwilioDurationFirst(data) ==
    [call_id |-> Get(data, "CallSid", ""),
     status |-> Get(data, "CallStatus", ""),
     from_number |-> Get(data, "From", None),
     to_number |-> Get(data, "To", None),
     direction |-> Get(data, "Direction", None),
     duration |-> Or(Get(data, "Duration", None), Get(data, "CallDuration", None)),
     extra |-> data]
FromTwilio(data) ==
    [call_id |-> Get(data, "CallSid", ""),
     status |-> Get(data, "CallStatus", ""),
     from_number |-> Get(data, "From", None),
     to_number |-> Get(data, "To", None),
     direction |-> Get(data, "Direction", None),
     duration |-> Or(Get(data, "CallDuration", None), Get(data, "Duration", None)),
     extra |-> data]

\* the Twilio form payloads
TwilioPayloads ==
    [CallSid : {Absent, "X"}, CallStatus : {Absent, "completed"},
     From : {Absent, "+14155550100"}, To : {Absent, "+14155551234"},
     Direction : {Absent, "outbound-api"},
     CallDuration : {Absent, "", "42"}, Duration : {Absent, "", "7"}]

\* numbers_match: equal as given, equal once a leading + is stripped, or
\* equal once a number written without + is completed with the dial prefix
\* of a supplied country
NoCountry == "None"
DialPrefix == [c \in {"US", "IN"} |-> IF c = "US" THEN <<"1">> ELSE <<"9", "1">>]
StripPlus(number) ==
    IF Len(number) > 0 /\ number[1] = "+" THEN SubSeq(number, 2, Len(number))
    ELSE number
International(number, country) ==
    IF Len(number) > 0 /\ number[1] = "+" THEN StripPlus(number)
    ELSE DialPrefix[country] \o number
NumbersMatch(incoming, configured, to_country, from_country) ==
    \/ incoming = configured
    \/ StripPlus(incoming) = StripPlus(configured)
    \/ \E country \in {to_country, from_country} \ {NoCountry} :
          International(incoming, country) = International(configured, country)

\* _verify_organization_phone_number: the loop over from_numbers
RECURSIVE AnyNumberMatches(_, _, _, _, _)
AnyNumberMatches(from_numbers, i, phone_number, to_country, from_country) ==
    IF i > Len(from_numbers) THEN FALSE
    ELSE IF NumbersMatch(phone_number, from_numbers[i], to_country, from_country)
    THEN TRUE
    ELSE AnyNumberMatches(from_numbers, i + 1, phone_number, to_country, from_country)

\* _verify_organization_phone_number; config is the stored row (exists is
\* false for no row or an empty value), raised an exception of the lookup
VerifyOrganizationPhoneNumberFirstOnly(phone_number, config, to_country, from_country, raised) ==
    IF raised THEN FALSE
    ELSE IF ~config.exists THEN FALSE
    ELSE /\ Len(config.from_numbers) > 0
         /\ NumbersMatch(phone_number, config.from_numbers[1], to_country, from_country)
VerifyOrganizationPhoneNumber(phone_number, config, to_country, from_country, raised) ==
    IF raised THEN FALSE
    ELSE IF ~config.exists THEN FALSE
    ELSE AnyNumberMatches(config.from_numbers, 1, phone_number, to_country, from_country)

\* the numbers of the called-number check
UsPlus == <<"+", "1", "4", "1", "5", "5", "5", "5", "1", "2", "3", "4">>
UsNational == <<"4", "1", "5", "5", "5", "5", "1", "2", "3", "4">>
UsNoPlus == <<"1", "4", "1", "5", "5", "5", "5", "1", "2", "3", "4">>
InPlus == <<"+", "9", "1", "4", "1", "5", "5", "5", "5", "1", "2", "3", "4">>
CalledNumbers == {UsPlus, UsNoPlus, UsNational}
ConfiguredNumbers == {UsNational, InPlus, UsPlus}
FromNumberLists ==
    {<<>>} \cup {<<n>> : n \in ConfiguredNumbers}
        \cup {<<n, m>> : n \in ConfiguredNumbers, m \in ConfiguredNumbers}
StoredFromNumbers ==
    {[exists |-> FALSE, from_numbers |-> <<>>]}
        \cup {[exists |-> TRUE, from_numbers |-> l] : l \in FromNumberLists}
Countries == {NoCountry, "US", "IN"}

NoCall == [method |-> "none", provider |-> "none", input |-> "none", output |-> "none"]

Callers == ({"ws"} \X Conns) \cup ({"cb"} \X Cbs)

\* ----------------------------------------- media pipeline (run_pipeline.py)
\* the run_pipeline_* definitions of the module in source order, each with
\* the wait_for_first_participant it passes to _run_pipeline (the parameter
\* defaults to False when the call does not name it)
RunPipelineDefs ==
    << [name |-> "run_pipeline_twilio", wait |-> FALSE],
       [name |-> "run_pipeline_vonage", wait |-> FALSE],
       [name |-> "run_pipeline_vobiz", wait |-> FALSE],
       [name |-> "run_pipeline_cloudonix", wait |-> FALSE],
       [name |-> "run_pipeline_smallwebrtc", wait |-> FALSE],
       [name |-> "run_pipeline_livekit", wait |-> TRUE],
       [name |-> "run_pipeline_livekit", wait |-> FALSE],
       [name |-> "run_pipeline_ari_stasis", wait |-> FALSE] >>

RunPipelineNames == {RunPipelineDefs[i].name : i \in 1..Len(RunPipelineDefs)}

\* the function a module-level name is bound to once the module is loaded:
\* a later def statement rebinds the name
ModuleBinding(name) ==
    LET defs == {i \in 1..Len(RunPipelineDefs) : RunPipelineDefs[i].name = name}
    IN RunPipelineDefs[CHOOSE i \in defs : \A k \in defs : k <= i]

\* invocations of on_first_participant_joined the transport may make
MaxJoins == 3
Joins == 1..MaxJoins

InnerEntry == "_run_pipeline"
PipeIdle ==
    [pc |-> "idle", entry |-> "none", wait |-> FALSE, started |-> FALSE,
     initial_llm_sent |-> FALSE, queuedAtStart |-> 0, queuedAtJoin |-> 0,
     joined |-> [j \in Joins |-> "idle"],
     recording |-> "off", disconnected |-> FALSE, participantLeft |-> FALSE,
     cancelled |-> FALSE]

\* _run_pipeline: refuses a completed run, else builds the task and registers
\* the transport and task event handlers with wait_for_first_participant
RunPipelineInner(entry, wait, isCompleted) ==
    IF isCompleted
    THEN [PipeIdle EXCEPT !.pc = "refused", !.entry = entry]
    ELSE [PipeIdle EXCEPT !.pc = "registered", !.entry = entry, !.wait = wait]

Init ==
    /\ \/ run = NoRun
       \/ \E campaign \in CampaignIds, p \in {NoProvider, "itniotech"} :
            run = NewRun(campaign, p)
    /\ ws = [c \in Conns |-> WsIdle]
    /\ cb = [t \in Cbs |-> CbIdle]
    /\ releases = [k \in Callers |-> 0]
    /\ retries = [t \in Cbs |-> <<>>]
    /\ inb = InbIdle
    /\ factory = FactoryIdle
    /\ out = OutIdle
    /\ call = NoCall
    /\ pipe = PipeIdle

\* handler invocations started so far
Started ==
    Cardinality({c \in Conns : ws[c].pc # "idle"})
        + Cardinality({t \in Cbs : cb[t].pc # "idle"})

\* a connect whose RUNNING write has been issued
Accepted(c) == ws[c].wroteRunning

\* ------------------------------------------------------ websocket_endpoint
\* accept, get_workflow_run, get_workflow, the state and provider guards;
\* orgProvider is the PROVIDER_NAME get_telephony_provider builds from the
\* organization's stored configuration (NoConfig: it raises)
WsConnect(c, wfExists, stored) ==
    /\ ws[c].pc = "idle"
    /\ Started < MaxTasks
    /\ \A d \in Conns : d < c => ws[d].pc # "idle"
    /\ LET orgProvider == OrgProviderOf(stored)
           kind == ConnectGuard(run, wfExists, orgProvider)
       IN ws' = [ws EXCEPT ![c] =
                    [@ EXCEPT !.pc = AfterGuard(kind),
                              !.wfExists = wfExists,
                              !.org = IF kind \in ProviderKinds
                                      THEN orgProvider ELSE NotLoaded,
                              !.stored = IF kind \in ProviderKinds
                                         THEN stored ELSE NotLoaded,
                              !.kind = kind,
                              !.code = CloseCode(kind),
                              !.afterAccept = \E d \in Conns : Accepted(d)]]
    /\ UNCHANGED <<run, cb, releases, retries, inb, factory, out, call, pipe>>

\* update_workflow_run(run_id, state=RUNNING)
WsSetRunning(c) ==
    /\ ws[c].pc = "set_running"
    /\ run' = UpdateWorkflowRun(run, [state |-> RUNNING])
    /\ ws' = [ws EXCEPT ![c] = [@ EXCEPT !.pc = "handle_websocket",
                                         !.wroteRunning = TRUE]]
    /\ UNCHANGED <<cb, releases, retries, inb, factory, out, call, pipe>>

\* provider.handle_websocket: the vendor handshake, then run_pipeline_*
WsHandleWebsocket(c, handshake) ==
    /\ ws[c].pc = "handle_websocket"
    /\ ws' = [ws EXCEPT ![c] =
                 [@ EXCEPT !.handedOff = TRUE,
                           !.pc = HandleWebsocket(ws[c].org, handshake).pc,
                           !.code = IF HandleWebsocket(ws[c].org, handshake).code
                                        = NotClosed
                                    THEN @
                                    ELSE HandleWebsocket(ws[c].org, handshake).code]]
    /\ UNCHANGED <<run, cb, releases, retries, inb, factory, out, call, pipe>>

\* _run_pipeline with no test of is_completed
RunPipelineAnyRun(c) ==
    /\ ws[c].pc = "run_pipeline"
    /\ ws' = [ws EXCEPT ![c] = [@ EXCEPT !.pc = "pipeline"]]
    /\ UNCHANGED <<run, cb, releases, retries, inb, factory, out, call, pipe>>

\* _run_pipeline: refuses a run that is already completed (the HTTPException
\* 'Workflow run already completed' ends the connection with 1011)
AlreadyCompleted == "already_completed"
RunPipeline(c) ==
    /\ ws[c].pc = "run_pipeline"
    /\ ws' = [ws EXCEPT ![c] =
                 [@ EXCEPT !.pc = IF run.is_completed THEN "closed" ELSE "pipeline",
                           !.kind = IF run.is_completed THEN AlreadyCompleted ELSE @,
                           !.code = IF run.is_completed THEN CloseInternalError ELSE @]]
    /\ UNCHANGED <<run, cb, releases, retries, inb, factory, out, call, pipe>>

\* on_pipeline_finished: get_workflow_run_by_id
PipelineFinishedRead(c) ==
    /\ ws[c].pc = "pipeline"
    /\ ws' = [ws EXCEPT ![c] = [@ EXCEPT !.pc = "finished_write",
                                         !.snap = Snapshot(run)]]
    /\ UNCHANGED <<run, cb, releases, retries, inb, factory, out, call, pipe>>

\* on_pipeline_finished: the write of gathered_context, is_completed, state
PipelineFinishedWrite(c, hasUserSpeech) ==
    /\ ws[c].pc = "finished_write"
    /\ LET tags == ws[c].snap.call_tags
           newTags == IF hasUserSpeech /\ \A i \in 1..Len(tags) : tags[i] # UserSpeech
                      THEN Append(tags, UserSpeech) ELSE tags
       IN run' = UpdateWorkflowRun(run,
                    [call_tags |-> newTags, is_completed |-> TRUE,
                     state |-> COMPLETED])
    /\ ws' = [ws EXCEPT ![c] =
                 [@ EXCEPT !.pc = IF ws[c].snap.campaign_id # NoCampaign
                                  THEN "finished_release" ELSE "done",
                           !.snap = NoSnapshot]]
    /\ UNCHANGED <<cb, releases, retries, inb, factory, out, call, pipe>>

\* on_pipeline_finished: release_call_slot for a campaign run
PipelineFinishedRelease(c) ==
    /\ ws[c].pc = "finished_release"
    /\ releases' = [releases EXCEPT ![<<"ws", c>>] = @ + 1]
    /\ ws' = [ws EXCEPT ![c] = [@ EXCEPT !.pc = "done"]]
    /\ UNCHANGED <<run, cb, retries, inb, factory, out, call, pipe>>

\* ------------------------------------------------- status-callback handler
\* handle_*_status_callback: get_workflow_run_by_id, parse the vendor payload
CbReceive(t, status, signed, valid) ==
    /\ cb[t].pc = "idle"
    /\ Started < MaxTasks
    /\ \A u \in Cbs : u < t => cb[u].pc # "idle"
    /\ cb' = [cb EXCEPT ![t] =
                 [pc |-> AfterReceive(run.exists, signed, valid),
                  status |-> status,
                  snap |-> IF AfterReceive(run.exists, signed, valid) = "log"
                           THEN Snapshot(run) ELSE NoSnapshot]]
    /\ UNCHANGED <<run, ws, releases, retries, inb, factory, out, call, pipe>>

\* _process_status_update: append to the callback log and save it
CbLog(t) ==
    /\ cb[t].pc = "log"
    /\ run' = UpdateWorkflowRun(run,
                 [logs |-> Append(cb[t].snap.logs, CallbackLogEntry(cb[t].status))])
    /\ cb' = [cb EXCEPT ![t] =
                 [@ EXCEPT !.pc = AfterLog(cb[t].status, cb[t].snap.campaign_id)]]
    /\ UNCHANGED <<ws, releases, retries, inb, factory, out, call, pipe>>

\* campaign_call_dispatcher.release_call_slot, the run marked completed even
\* when the collaborator raises
CbReleaseThenCompleteAnyway(t, ok) ==
    /\ cb[t].pc = "release"
    /\ releases' = [releases EXCEPT ![<<"cb", t>>] = @ + 1]
    /\ cb' = [cb EXCEPT ![t] =
                 [@ EXCEPT !.pc = IF ok
                                  THEN AfterRelease(cb[t].status, cb[t].snap.campaign_id)
                                  ELSE "faulted"]]
    /\ run' = IF ok THEN run
              ELSE UpdateWorkflowRun(run, CompletionFields(cb[t].status, cb[t].snap))
    /\ UNCHANGED <<ws, retries, inb, factory, out, call, pipe>>

\* campaign_call_dispatcher.release_call_slot; the collaborator may raise
CbRelease(t, ok) ==
    /\ cb[t].pc = "release"
    /\ releases' = [releases EXCEPT ![<<"cb", t>>] = @ + 1]
    /\ cb' = [cb EXCEPT ![t] =
                 [@ EXCEPT !.pc = IF ok
                                  THEN AfterRelease(cb[t].status, cb[t].snap.campaign_id)
                                  ELSE "faulted"]]
    /\ UNCHANGED <<run, ws, retries, inb, factory, out, call, pipe>>

\* publisher.publish_retry_needed; the collaborator may raise
CbPublish(t, ok) ==
    /\ cb[t].pc = "publish"
    /\ retries' = [retries EXCEPT ![t] =
                      Append(@, RetrySignal(cb[t].status, cb[t].snap))]
    /\ cb' = [cb EXCEPT ![t] = [@ EXCEPT !.pc = IF ok THEN "complete" ELSE "faulted"]]
    /\ UNCHANGED <<run, ws, releases, inb, factory, out, call, pipe>>

\* the final update_workflow_run: is_completed, state and the failure tags
CbComplete(t) ==
    /\ cb[t].pc = "complete"
    /\ run' = UpdateWorkflowRun(run, CompletionFields(cb[t].status, cb[t].snap))
    /\ cb' = [cb EXCEPT ![t] = [@ EXCEPT !.pc = "done", !.snap = NoSnapshot]]
    /\ UNCHANGED <<ws, releases, retries, inb, factory, out, call, pipe>>

Next ==
    \/ \E c \in Conns, wfExists \in BOOLEAN, stored \in WsStoredConfigs :
            WsConnect(c, wfExists, stored)
    \/ \E c \in Conns : WsSetRunning(c)
    \/ \E c \in Conns, handshake \in HandshakeOutcomes : WsHandleWebsocket(c, handshake)
    \/ \E c \in Conns : RunPipeline(c)
    \/ \E c \in Conns : PipelineFinishedRead(c)
    \/ \E c \in Conns, hasUserSpeech \in BOOLEAN : PipelineFinishedWrite(c, hasUserSpeech)
    \/ \E c \in Conns : PipelineFinishedRelease(c)
    \/ \E t \in Cbs, status \in Statuses, signed \in BOOLEAN, valid \in BOOLEAN :
                CbReceive(t, status, signed, valid)
    \/ \E t \in Cbs : CbLog(t)
    \/ \E t \in Cbs, ok \in BOOLEAN : CbRelease(t, ok)
    \/ \E t \in Cbs, ok \in BOOLEAN : CbPublish(t, ok)
    \/ \E t \in Cbs : CbComplete(t)

Spec == Init /\ [][Next]_vars

\* ------------------------------------------------ handle_inbound_telephony
\* the handler returns: a fault answered by the except clauses, or an answer
InbFault(step) ==
    [inb EXCEPT !.pc = "done", !.fault = step, !.response = FaultResponse(step)]
InbAnswer(base, response) ==
    [base EXCEPT !.pc = "done", !.response = response]
InbRejected(base, error) ==
    InbAnswer([base EXCEPT !.error = error],
              ValidationErrorResponse(base.provider, error))

\* the outcome of one get_telephony_provider call
FactoryCall(stored) ==
    [called |-> TRUE, stored |-> stored, config |-> LoadTelephonyConfig(stored),
     provider |-> GetTelephonyProvider(stored)]

\* parse_webhook_request; the request carries the signature headers
InbParse(xTwilio, xVobiz, raised) ==
    /\ inb.pc = "idle"
    /\ inb' = IF raised THEN InbFault("parse")
              ELSE [inb EXCEPT !.pc = "detect", !.xTwilio = xTwilio,
                               !.xVobiz = xVobiz]
    /\ UNCHANGED <<run, ws, cb, releases, retries, factory, out, call, pipe>>

\* _detect_provider over the request; no provider: generic hangup
InbDetect(canHandle, raised) ==
    /\ inb.pc = "detect"
    /\ inb' = IF raised THEN InbFault("detect")
              ELSE LET provider_class == DetectProvider(canHandle)
                       base == [inb EXCEPT !.canHandle = canHandle,
                                           !.provider = provider_class]
                   IN IF provider_class = Undetected
                      THEN InbAnswer(base, GenericHangup)
                      ELSE [base EXCEPT !.pc = "normalize"]
    /\ UNCHANGED <<run, ws, cb, releases, retries, factory, out, call, pipe>>

\* normalize_webhook_data and the direction check
InbNormalize(direction, raised) ==
    /\ inb.pc = "normalize"
    /\ inb' = IF raised THEN InbFault("normalize")
              ELSE IF direction # "inbound"
              THEN InbAnswer([inb EXCEPT !.direction = direction], GenericHangup)
              ELSE [inb EXCEPT !.pc = "workflow", !.direction = direction]
    /\ UNCHANGED <<run, ws, cb, releases, retries, factory, out, call, pipe>>

\* _validate_inbound_request, check 1: db_client.get_workflow
InbCheckWorkflow(wfExists, raised) ==
    /\ inb.pc = "workflow"
    /\ LET base == [inb EXCEPT !.evaluated = Append(@, "workflow")]
       IN inb' = IF raised THEN InbFault("workflow")
                 ELSE IF ~wfExists THEN InbRejected(base, WorkflowNotFound)
                 ELSE [base EXCEPT !.pc = "account"]
    /\ UNCHANGED <<run, ws, cb, releases, retries, factory, out, call, pipe>>

\* check 2: _validate_organization_provider_config
InbCheckAccount(hasAccountId, stored, accountOk, raised) ==
    /\ inb.pc = "account"
    /\ LET base == [inb EXCEPT !.evaluated = Append(@, "account"),
                               !.account = [hasAccountId |-> hasAccountId,
                                            stored |-> stored,
                                            accountOk |-> accountOk,
                                            raised |-> raised]]
           result == ValidateOrganizationProviderConfig(
                         hasAccountId, stored, inb.provider, accountOk, raised)
       IN inb' = IF result # Valid THEN InbRejected(base, result)
                 ELSE [base EXCEPT !.pc = "phone"]
    /\ UNCHANGED <<run, ws, cb, releases, retries, factory, out, call, pipe>>

\* check 3: _verify_organization_phone_number (an exception inside it gives
\* False)
InbCheckPhone(numberMatches, raised) ==
    /\ inb.pc = "phone"
    /\ LET base == [inb EXCEPT !.evaluated = Append(@, "phone")]
       IN inb' = IF raised \/ ~numberMatches
                 THEN InbRejected(base, PhoneNumberNotConfigured)
                 ELSE [base EXCEPT !.pc = "signature"]
    /\ UNCHANGED <<run, ws, cb, releases, retries, factory, out, call, pipe>>

\* check 4 without a signature header: nothing is awaited, the pipeline
\* succeeds
InbSkipSignature ==
    /\ inb.pc = "signature"
    /\ ~(inb.xTwilio \/ inb.xVobiz)
    /\ inb' = [inb EXCEPT !.evaluated = Append(@, "signature"), !.pc = "quota"]
    /\ UNCHANGED <<run, ws, cb, releases, retries, factory, out, call, pipe>>

\* check 4 with a signature header: get_tunnel_url, get_telephony_provider,
\* then verify_inbound_signature for the header of the detected vendor
InbCheckSignature(stored, signatureOk, raised) ==
    /\ inb.pc = "signature"
    /\ inb.xTwilio \/ inb.xVobiz
    /\ LET base == [inb EXCEPT !.evaluated = Append(@, "signature")]
           header == SignatureToVerify(inb.provider, inb.xTwilio, inb.xVobiz)
       IN inb' = IF raised \/ GetTelephonyProvider(stored) = ConfigError
                 THEN InbFault("signature")
                 ELSE IF header = "none" THEN [base EXCEPT !.pc = "quota"]
                 ELSE IF signatureOk
                 THEN [base EXCEPT !.pc = "quota", !.verified = header,
                                   !.signatureOk = TRUE]
                 ELSE InbRejected([base EXCEPT !.verified = header],
                                  SignatureValidationFailed)
    /\ factory' = IF raised THEN factory ELSE FactoryCall(stored)
    /\ UNCHANGED <<run, ws, cb, releases, retries, out, call, pipe>>

\* check_dograh_quota_by_user_id
InbQuota(hasQuota, raised) ==
    /\ inb.pc = "quota"
    /\ LET base == [inb EXCEPT !.quotaChecked = TRUE]
       IN inb' = IF raised THEN InbFault("quota")
                 ELSE IF ~hasQuota THEN InbRejected(base, QuotaExceeded)
                 ELSE [base EXCEPT !.pc = "create"]
    /\ UNCHANGED <<run, ws, cb, releases, retries, factory, out, call, pipe>>

\* _create_inbound_workflow_run: create_workflow_run(..., call_type=INBOUND)
InbCreate(raised) ==
    /\ inb.pc = "create"
    /\ inb' = IF raised THEN InbFault("create")
              ELSE [inb EXCEPT !.pc = "respond", !.call_type = "inbound",
                               !.mode = inb.provider]
    /\ run' = IF raised THEN run ELSE NewRun(NoCampaign, inb.provider)
    /\ UNCHANGED <<ws, cb, releases, retries, factory, out, call, pipe>>

\* get_tunnel_url and provider_class.generate_inbound_response
InbRespond(raised) ==
    /\ inb.pc = "respond"
    /\ inb' = IF raised THEN InbFault("respond")
              ELSE InbAnswer(inb, InboundResponse(inb.provider))
    /\ UNCHANGED <<run, ws, cb, releases, retries, factory, out, call, pipe>>

\* get_telephony_provider called by any other route for the organization
GetTelephonyProviderCall(stored) ==
    /\ factory' = FactoryCall(stored)
    /\ UNCHANGED <<run, ws, cb, releases, retries, inb, out, call, pipe>>

NextInbound ==
    \/ \E xTwilio \in BOOLEAN, xVobiz \in BOOLEAN, raised \in BOOLEAN :
            InbParse(xTwilio, xVobiz, raised)
    \/ \E canHandle \in [DetectableSet -> BOOLEAN], raised \in BOOLEAN :
            InbDetect(canHandle, raised)
    \/ \E direction \in {"inbound", "outbound"}, raised \in BOOLEAN :
            InbNormalize(direction, raised)
    \/ \E wfExists \in BOOLEAN, raised \in BOOLEAN : InbCheckWorkflow(wfExists, raised)
    \/ \E hasAccountId \in BOOLEAN, stored \in StoredConfigs,
          accountOk \in BOOLEAN, raised \in BOOLEAN :
            InbCheckAccount(hasAccountId, stored, accountOk, raised)
    \/ \E numberMatches \in BOOLEAN, raised \in BOOLEAN :
            InbCheckPhone(numberMatches, raised)
    \/ InbSkipSignature
    \/ \E stored \in StoredConfigs, signatureOk \in BOOLEAN, raised \in BOOLEAN :
            InbCheckSignature(stored, signatureOk, raised)
    \/ \E hasQuota \in BOOLEAN, raised \in BOOLEAN : InbQuota(hasQuota, raised)
    \/ \E raised \in BOOLEAN : InbCreate(raised)
    \/ \E raised \in BOOLEAN : InbRespond(raised)
    \/ \E stored \in StoredConfigs : GetTelephonyProviderCall(stored)

\* an inbound call has no run before the webhook handler creates one
InitInbound == Init /\ run = NoRun

SpecInbound == InitInbound /\ [][NextInbound]_vars

\* ----------------------------------------------------------- initiate_call
OutAnswer(base, response) == [base EXCEPT !.pc = "done", !.response = response]

\* get_telephony_provider, then provider.validate_config(); the validity of
\* a provider whose class is not ItniotechProvider is the input otherValid
OutGetProvider(stored, config, otherValid) ==
    /\ out.pc = "idle"
    /\ LET provider == GetTelephonyProvider(stored)
           base == [out EXCEPT !.provider = provider,
                               !.evaluated = Append(@, "provider")]
           valid == IF provider = "itniotech" THEN ItniotechValidateConfig(config)
                    ELSE otherValid
       IN out' = IF provider = ConfigError
                 THEN OutAnswer(out, Unhandled("ValueError"))
                 ELSE IF ~valid
                 THEN OutAnswer(base, HttpError(BadRequest, "telephony_not_configured"))
                 ELSE [base EXCEPT !.pc = "quota"]
    /\ factory' = FactoryCall(stored)
    /\ UNCHANGED <<run, ws, cb, releases, retries, inb, call, pipe>>

\* check_dograh_quota
OutQuota(hasQuota, raised) ==
    /\ out.pc = "quota"
    /\ LET base == [out EXCEPT !.evaluated = Append(@, "quota")]
       IN out' = IF raised THEN OutAnswer(base, Unhandled("Exception"))
                 ELSE IF ~hasQuota
                 THEN OutAnswer(base, HttpError(PaymentRequired, "quota"))
                 ELSE [base EXCEPT !.pc = "number"]
    /\ UNCHANGED <<run, ws, cb, releases, retries, inb, factory, call, pipe>>

\* get_user_configurations and the destination number
OutNumber(requestNumber, testNumber) ==
    /\ out.pc = "number"
    /\ LET phone_number == PhoneNumber(requestNumber, testNumber)
           base == [out EXCEPT !.evaluated = Append(@, "number"),
                               !.requestNumber = requestNumber,
                               !.testNumber = testNumber,
                               !.number = phone_number]
       IN out' = IF phone_number = ""
                 THEN OutAnswer(base, HttpError(BadRequest, "phone_number_missing"))
                 ELSE [base EXCEPT !.pc = "run"]
    /\ UNCHANGED <<run, ws, cb, releases, retries, inb, factory, call, pipe>>

\* create_workflow_run when the request has no run id, else get_workflow_run
OutRun(runIdSupplied, hex8) ==
    /\ out.pc = "run"
    /\ out' = IF ~runIdSupplied
              THEN [out EXCEPT !.pc = "tunnel", !.created = @ + 1,
                               !.newRun = NewRun(NoCampaign, out.provider),
                               !.name = WorkflowRunName(hex8),
                               !.call_type = "outbound",
                               !.mode = out.provider]
              ELSE IF ~run.exists
              THEN OutAnswer([out EXCEPT !.runIdSupplied = TRUE],
                             HttpError(BadRequest, "Workflow run not found"))
              ELSE [out EXCEPT !.pc = "tunnel", !.runIdSupplied = TRUE,
                               !.name = <<"e", "x", "i", "s", "t", "i", "n", "g">>]
    /\ UNCHANGED <<run, ws, cb, releases, retries, inb, factory, call, pipe>>

\* TunnelURLProvider.get_tunnel_url and the webhook URL
OutTunnel(raised) ==
    /\ out.pc = "tunnel"
    /\ out' = IF raised THEN OutAnswer(out, Unhandled("Exception"))
              ELSE [out EXCEPT !.pc = "initiate",
                               !.webhook = WebhookUrl("workflow", "user",
                                   IF out.runIdSupplied THEN "supplied_run" ELSE "new_run",
                                   "organization")]
    /\ UNCHANGED <<run, ws, cb, releases, retries, inb, factory, call, pipe>>

\* provider.initiate_call: the vendor API call, which may raise
OutInitiateCall(ok, metadata) ==
    /\ out.pc = "initiate"
    /\ LET base == [out EXCEPT !.calls = @ + 1]
       IN out' = IF ~ok THEN OutAnswer(base, Unhandled("Exception"))
                 ELSE [base EXCEPT !.pc = "persist", !.metadata = metadata]
    /\ UNCHANGED <<run, ws, cb, releases, retries, inb, factory, call, pipe>>

\* update_workflow_run(gathered_context=...) and the success message
OutPersist(raised) ==
    /\ out.pc = "persist"
    /\ out' = IF raised THEN OutAnswer(out, Unhandled("Exception"))
              ELSE OutAnswer([out EXCEPT !.gathered =
                                 GatheredContext(out.provider, out.metadata)],
                             SuccessMessage(out.name))
    /\ UNCHANGED <<run, ws, cb, releases, retries, inb, factory, call, pipe>>

\* what provider_metadata a vendor call returns: nothing, or vendor items
ProviderMetadata == {{}, {<<"call_sid", "CA1">>}}

NextOutbound ==
    \/ \E stored \in StoredConfigs, config \in ItniotechConfigs, otherValid \in BOOLEAN :
            OutGetProvider(stored, config, otherValid)
    \/ \E hasQuota \in BOOLEAN, raised \in BOOLEAN : OutQuota(hasQuota, raised)
    \/ \E requestNumber \in {"", "+15551234567"}, testNumber \in {"", "+15550000000"} :
            OutNumber(requestNumber, testNumber)
    \/ \E runIdSupplied \in BOOLEAN, hex8 \in Hex8Values : OutRun(runIdSupplied, hex8)
    \/ \E raised \in BOOLEAN : OutTunnel(raised)
    \/ \E ok \in BOOLEAN, metadata \in ProviderMetadata : OutInitiateCall(ok, metadata)
    \/ \E raised \in BOOLEAN : OutPersist(raised)

SpecOutbound == Init /\ [][NextOutbound]_vars

\* run creation: one request, an inbound webhook or an outbound initiation
NextCreate ==
    \/ out = OutIdle /\ NextInbound
    \/ inb = InbIdle /\ NextOutbound

SpecCreate == InitInbound /\ [][NextCreate]_vars

\* --------------------------------------------- provider contract, applied
\* one application of a function of the contract to one input
ItniotechValidateConfigCall ==
    /\ call = NoCall
    /\ \E config \in ItniotechConfigs :
          call' = [method |-> "validate_config", provider |-> "itniotech",
                   input |-> config, output |-> ItniotechValidateConfig(config)]
    /\ UNCHANGED <<run, ws, cb, releases, retries, inb, factory, out, pipe>>

LiveKitValidateConfigCall ==
    /\ call = NoCall
    /\ \E config \in LiveKitConfigs :
          call' = [method |-> "validate_config", provider |-> "livekit",
                   input |-> config, output |-> LiveKitValidateConfig(config)]
    /\ UNCHANGED <<run, ws, cb, releases, retries, inb, factory, out, pipe>>

ItniotechValidationErrorResponseCall ==
    /\ call = NoCall
    /\ \E error_type \in ErrorTypes :
          call' = [method |-> "generate_validation_error_response",
                   provider |-> "itniotech", input |-> error_type,
                   output |-> ItniotechValidationErrorResponse(error_type)]
    /\ UNCHANGED <<run, ws, cb, releases, retries, inb, factory, out, pipe>>

LiveKitValidationErrorResponseCall ==
    /\ call = NoCall
    /\ \E error_type \in ErrorTypes :
          call' = [method |-> "generate_validation_error_response",
                   provider |-> "livekit", input |-> error_type,
                   output |-> LiveKitValidationErrorResponse(error_type)]
    /\ UNCHANGED <<run, ws, cb, releases, retries, inb, factory, out, pipe>>

FromTwilioCall ==
    /\ call = NoCall
    /\ \E data \in TwilioPayloads :
          call' = [method |-> "from_twilio", provider |-> "twilio",
                   input |-> data, output |-> FromTwilio(data)]
    /\ UNCHANGED <<run, ws, cb, releases, retries, inb, factory, out, pipe>>

VerifyOrganizationPhoneNumberCall ==
    /\ call = NoCall
    /\ \E phone_number \in CalledNumbers, config \in StoredFromNumbers,
          to_country \in Countries, from_country \in Countries, raised \in BOOLEAN :
          call' = [method |-> "verify_organization_phone_number",
                   provider |-> "none",
                   input |-> [phone_number |-> phone_number, config |-> config,
                              to_country |-> to_country,
                              from_country |-> from_country, raised |-> raised],
                   output |-> VerifyOrganizationPhoneNumber(
                                  phone_number, config, to_country, from_country, raised)]
    /\ UNCHANGED <<run, ws, cb, releases, retries, inb, factory, out, pipe>>

\* the frame sequences of a handshake: nothing, one frame, two frames
FrameSequences ==
    {<<>>} \cup {<<f>> : f \in Frames} \cup {<<f, g>> : f \in Frames, g \in Frames}

ItniotechHandleWebsocketCall ==
    /\ call = NoCall
    /\ \E messages \in FrameSequences :
          call' = [method |-> "handle_websocket", provider |-> "itniotech",
                   input |-> messages,
                   output |-> HandleWebsocket("itniotech", ItniotechHandshake(messages))]
    /\ UNCHANGED <<run, ws, cb, releases, retries, inb, factory, out, pipe>>

NextContract ==
    \/ ItniotechValidateConfigCall
    \/ LiveKitValidateConfigCall
    \/ ItniotechValidationErrorResponseCall
    \/ LiveKitValidationErrorResponseCall
    \/ FromTwilioCall
    \/ VerifyOrganizationPhoneNumberCall
    \/ ItniotechHandleWebsocketCall

SpecContract == InitInbound /\ [][NextContract]_vars

\* no handler invocation is between its first and its last await; a connect
\* whose media pipeline is running is not inside a handler
Quiescent ==
    /\ \A c \in Conns : ws[c].pc \in {"idle", "pipeline", "done", "closed"}
    /\ \A t \in Cbs : cb[t].pc \in {"idle", "done", "faulted", "ignored", "rejected"}

\* the handlers run one after another: an invocation (a connect, the
\* completion hook, a status callback) starts only when none is in progress
NextSeq ==
    \/ /\ Quiescent
       /\ \/ \E c \in Conns, wfExists \in BOOLEAN, stored \in WsStoredConfigs :
                WsConnect(c, wfExists, stored)
          \/ \E c \in Conns : PipelineFinishedRead(c)
          \/ \E t \in Cbs, status \in Statuses, signed \in BOOLEAN, valid \in BOOLEAN :
                CbReceive(t, status, signed, valid)
    \/ \E c \in Conns : WsSetRunning(c)
    \/ \E c \in Conns, handshake \in HandshakeOutcomes : WsHandleWebsocket(c, handshake)
    \/ \E c \in Conns : RunPipeline(c)
    \/ \E c \in Conns, hasUserSpeech \in BOOLEAN : PipelineFinishedWrite(c, hasUserSpeech)
    \/ \E c \in Conns : PipelineFinishedRelease(c)
    \/ \E t \in Cbs : CbLog(t)
    \/ \E t \in Cbs, ok \in BOOLEAN : CbRelease(t, ok)
    \/ \E t \in Cbs, ok \in BOOLEAN : CbPublish(t, ok)
    \/ \E t \in Cbs : CbComplete(t)

SpecSeq == Init /\ [][NextSeq]_vars


\* ------------------------------------------ media pipeline event handlers
\* a session entry point run_pipeline_<transport> calls _run_pipeline
RunPipelineSession ==
    /\ pipe.pc = "idle"
    /\ \E name \in RunPipelineNames, isCompleted \in BOOLEAN :
          pipe' = RunPipelineInner(name, ModuleBinding(name).wait, isCompleted)
    /\ UNCHANGED <<run, ws, cb, releases, retries, inb, factory, out, call>>

\* _run_pipeline called with wait_for_first_participant given by its caller
RunPipelineDirect ==
    /\ pipe.pc = "idle"
    /\ \E wait \in BOOLEAN, isCompleted \in BOOLEAN :
          pipe' = RunPipelineInner(InnerEntry, wait, isCompleted)
    /\ UNCHANGED <<run, ws, cb, releases, retries, inb, factory, out, call>>

\* on_pipeline_started: queues the initial LLM context frame unless the
\* pipeline waits for the first participant
OnPipelineStarted ==
    /\ pipe.pc = "registered" /\ ~pipe.started
    /\ pipe' = [pipe EXCEPT !.started = TRUE,
                            !.queuedAtStart = IF pipe.wait THEN @ ELSE @ + 1]
    /\ UNCHANGED <<run, ws, cb, releases, retries, inb, factory, out, call>>

\* on_first_participant_joined, registered only when the pipeline waits for
\* the first participant: the test of initial_llm_sent
OnFirstParticipantJoined(j) ==
    /\ pipe.pc = "registered" /\ pipe.wait
    /\ pipe.joined[j] = "idle"
    /\ \A k \in Joins : k < j => pipe.joined[k] # "idle"
    /\ pipe' = [pipe EXCEPT !.joined[j] =
                                IF pipe.initial_llm_sent THEN "done" ELSE "queue"]
    /\ UNCHANGED <<run, ws, cb, releases, retries, inb, factory, out, call>>

\* on_first_participant_joined: await engine.llm.queue_frame(...), then
\* initial_llm_sent = True
OnFirstParticipantJoinedQueue(j) ==
    /\ pipe.joined[j] = "queue"
    /\ pipe' = [pipe EXCEPT !.joined[j] = "done",
                            !.queuedAtJoin = @ + 1,
                            !.initial_llm_sent = TRUE]
    /\ UNCHANGED <<run, ws, cb, releases, retries, inb, factory, out, call>>

\* on_client_connected: audio_buffer.start_recording
OnClientConnected ==
    /\ pipe.pc = "registered" /\ pipe.recording = "off" /\ ~pipe.disconnected
    /\ pipe' = [pipe EXCEPT !.recording = "on"]
    /\ UNCHANGED <<run, ws, cb, releases, retries, inb, factory, out, call>>

\* on_client_disconnected: engine.handle_client_disconnected, the recording
\* stopped, and the task cancelled unless the engine disposed of the call
OnClientDisconnected(callDisposed) ==
    /\ pipe.pc = "registered" /\ ~pipe.disconnected
    /\ pipe' = [pipe EXCEPT !.disconnected = TRUE,
                            !.recording = "stopped",
                            !.cancelled = @ \/ ~callDisposed]
    /\ UNCHANGED <<run, ws, cb, releases, retries, inb, factory, out, call>>

\* on_participant_disconnected, registered only when the pipeline waits for
\* the first participant: the same steps as on_client_disconnected
OnParticipantDisconnected(callDisposed) ==
    /\ pipe.pc = "registered" /\ pipe.wait /\ ~pipe.participantLeft
    /\ pipe' = [pipe EXCEPT !.participantLeft = TRUE,
                            !.recording = "stopped",
                            !.cancelled = @ \/ ~callDisposed]
    /\ UNCHANGED <<run, ws, cb, releases, retries, inb, factory, out, call>>

NextPipeline ==
    \/ RunPipelineSession
    \/ RunPipelineDirect
    \/ OnPipelineStarted
    \/ OnClientConnected
    \/ \E callDisposed \in BOOLEAN : OnClientDisconnected(callDisposed)
    \/ \E callDisposed \in BOOLEAN : OnParticipantDisconnected(callDisposed)
    \/ \E j \in Joins : OnFirstParticipantJoined(j)
    \/ \E j \in Joins : OnFirstParticipantJoinedQueue(j)

SpecPipeline == InitInbound /\ [][NextPipeline]_vars

\* ================================================================= claims

StateRank(st) == CASE st = INITIALIZED -> 0 [] st = RUNNING -> 1 [] OTHER -> 2

\* C1: the state of a CallRun is monotonic along INITIALIZED -> RUNNING ->
\* COMPLETED: no write moves a run to an earlier state, under any interleaving
\* of connects, status-callback processing and the pipeline completion hook.
C1_StateMonotonic ==
    [][StateRank(run'.state) >= StateRank(run.state)]_vars

\* C2: in every reachable state of a CallRun, is_completed is true iff
\* state = COMPLETED.
C2_CompletedIffState ==
    run.exists => (run.is_completed <=> run.state = COMPLETED)

\* C3: a connect attempt made after another connect was accepted (its RUNNING
\* write issued), for the same existing workflow, is rejected with the
\* conflict close code 4409, issues no write and is not handed off.
C3_SecondConnectConflict ==
    \A c \in Conns :
        (ws[c].afterAccept /\ ws[c].wfExists) =>
            /\ ws[c].pc = "closed"
            /\ ws[c].code = 4409
            /\ ~ws[c].wroteRunning
            /\ ~ws[c].handedOff
            /\ run.state # INITIALIZED

C3_Witness ==
    \E c, d \in Conns :
        /\ c # d
        /\ ws[d].wroteRunning
        /\ ws[c].afterAccept /\ ws[c].wfExists
        /\ ws[c].code = 4409
        /\ run.state = RUNNING

\* C4: under any interleaving of concurrent connects for one run, at most one
\* of them passes the RUNNING-transition guard and is handed off to
\* provider.handle_websocket.
C4_AtMostOneSession ==
    Cardinality({c \in Conns : ws[c].handedOff}) <= 1

\* C5: when the run or the workflow does not exist, the run is not
\* INITIALIZED, its initial_context has no provider, or the organization's
\* provider differs from it, the connect is closed, the stored run is left as
\* it was, and the closed connect takes no further step (no pipeline start).
C5_GuardViolated(c) ==
    \/ ~run.exists
    \/ ~ws'[c].wfExists
    \/ run.state # INITIALIZED
    \/ run.provider = NoProvider
    \/ ws'[c].org # run.provider

C5_RejectLeavesRunUnchanged ==
    [][\A c \in Conns :
         /\ (ws[c].pc = "idle" /\ ws'[c].pc # "idle" /\ C5_GuardViolated(c)) =>
                 /\ ws'[c].pc = "closed"
                 /\ ws'[c].code # NotClosed
                 /\ ~ws'[c].wroteRunning /\ ~ws'[c].handedOff
                 /\ run' = run
                 /\ releases' = releases /\ retries' = retries
         /\ (ws[c].pc = "closed" => ws'[c] = ws[c])]_vars

C5_Witness ==
    \E c \in Conns :
        /\ ws[c].pc = "closed"
        /\ ws[c].kind = "provider_mismatch"
        /\ ws[c].org = "twilio" /\ run.provider = "itniotech"
        /\ run.state = INITIALIZED

\* the four failure kinds of the media-session entry point
C6_FailureClass(kind) ==
    CASE kind \in {"run_not_found", "workflow_not_found"} -> "not_found"
      [] OTHER -> kind

\* C6 (as claimed): each failure kind is rejected with a close code that is
\* not 1000 and differs from the close code of every other failure kind.
C6_DistinctCloseCodes ==
    \A c \in Conns :
        (ws[c].pc = "closed" /\ ws[c].kind \in FailureKinds) =>
            /\ ws[c].code # 1000
            /\ \A k \in FailureKinds :
                   C6_FailureClass(k) # C6_FailureClass(ws[c].kind)
                       => CloseCode(k) # ws[c].code

\* C6 (amended): each failure kind is rejected with a close code that is not
\* 1000: not-found with 4404, wrong-state with 4409, and both
\* provider-mismatch and missing-provider-type with the same code 4400.
C6_CloseCodes ==
    \A c \in Conns :
        (ws[c].pc = "closed" /\ ws[c].kind \in FailureKinds) =>
            /\ ws[c].code # 1000
            /\ C6_FailureClass(ws[c].kind) = "not_found" => ws[c].code = 4404
            /\ ws[c].kind = "wrong_state" => ws[c].code = 4409
            /\ ws[c].kind \in {"no_provider_type", "provider_mismatch"}
                   => ws[c].code = 4400

C6_Witness ==
    \E c \in Conns :
        /\ ws[c].pc = "closed" /\ ws[c].kind = "no_provider_type"
        /\ ws[c].code = 4400 /\ run.provider = NoProvider

\* C7: provider.handle_websocket is invoked, and the pipeline started, only
\* by a connect whose RUNNING write has been issued before.
C7_RunningBeforeHandoff ==
    \A c \in Conns :
        (ws[c].handedOff \/ ws[c].pc \in {"handle_websocket", "run_pipeline", "pipeline"})
            => ws[c].wroteRunning

C7_Witness ==
    \E c \in Conns :
        ws[c].handedOff /\ ws[c].wroteRunning /\ ws[c].pc = "pipeline"

\* the step with which callback task t returns normally
C_Finishes(t) == cb[t].pc = "complete" /\ cb'[t].pc = "done"

C_ExpectedReleases == IF run.campaign_id # NoCampaign THEN 1 ELSE 0

\* C8: processing one status update with status "completed" sets
\* is_completed and state = COMPLETED, invokes slot release once if the run
\* has a campaign_id and never if it has none, and publishes no retry signal.
C8_CompletedUpdate ==
    [][\A t \in Cbs :
         /\ (C_Finishes(t) /\ cb[t].status = Completed) =>
                 /\ run'.is_completed /\ run'.state = COMPLETED
                 /\ releases'[<<"cb", t>>] = C_ExpectedReleases
         /\ (cb'[t].status = Completed /\ cb'[t].pc # "idle") =>
                 /\ retries'[t] = <<>>
                 /\ releases'[<<"cb", t>>] <= C_ExpectedReleases]_vars

C8_Witness ==
    \E t \in Cbs :
        /\ cb[t].pc = "done" /\ cb[t].status = Completed
        /\ releases[<<"cb", t>>] = 1
        /\ run.is_completed /\ run.state = COMPLETED

C9_ExpectedReason(status) ==
    IF status = NoAnswer
    THEN <<"n","o","_","a","n","s","w","e","r">>
    ELSE <<"b","u","s","y">>

\* C9: processing one busy / no-answer update on a campaign run publishes
\* exactly one retry-needed signal carrying run_id, the reason with hyphens
\* replaced by underscores, campaign_id and queued_run_id, and releases the
\* slot exactly once; on a run without campaign_id it does neither.
C9_RetryUpdate ==
    [][\A t \in Cbs :
         /\ (C_Finishes(t) /\ cb[t].status \in {Busy, NoAnswer}) =>
                 IF run.campaign_id # NoCampaign
                 THEN /\ retries'[t] =
                            <<[run_id |-> 1,
                               reason |-> C9_ExpectedReason(cb[t].status),
                               campaign_id |-> run.campaign_id,
                               queued_run_id |-> run.queued_run_id]>>
                      /\ releases'[<<"cb", t>>] = 1
                 ELSE /\ retries'[t] = <<>>
                      /\ releases'[<<"cb", t>>] = 0
         /\ Len(retries'[t]) <= 1
         /\ releases'[<<"cb", t>>] <= 1]_vars

C9_Witness ==
    \E t \in Cbs :
        /\ cb[t].pc = "done" /\ cb[t].status = NoAnswer
        /\ Len(retries[t]) = 1
        /\ retries[t][1].reason = <<"n","o","_","a","n","s","w","e","r">>
        /\ releases[<<"cb", t>>] = 1

RECURSIVE C_Sum(_, _)
C_Sum(f, S) ==
    IF S = {} THEN 0
    ELSE LET k == CHOOSE x \in S : TRUE IN f[k] + C_Sum(f, S \ {k})
C_TotalReleases == C_Sum(releases, Callers)

\* C11: for a campaign run, whatever the sequential (non-overlapping) order
\* of the pipeline completion hook and the terminal status updates, the
\* concurrency slot is released no more than once (checked under SpecSeq)
C11_ReleasedOnce ==
    (run.exists /\ run.campaign_id # NoCampaign) => C_TotalReleases <= 1


\* C12: nothing guards a terminal status transition against a duplicate: a
\* terminal callback of a campaign run always invokes release_call_slot once
\* and, for busy/no-answer, publishes its retry signal once, whatever the
\* other handlers of the run have done or are doing
C12_NoDuplicateGuard ==
    \A t \in Cbs :
        (/\ run.exists /\ run.campaign_id # NoCampaign
         /\ cb[t].status \in FailureStatuses \cup {Completed}
         /\ cb[t].pc \in {"publish", "complete", "done"})
        => /\ releases[<<"cb", t>>] = 1
           /\ (cb[t].status \in RetryStatuses /\ cb[t].pc \in {"complete", "done"})
                  => Len(retries[t]) = 1

\* two overlapping busy/no-answer callbacks of one campaign run (both read
\* the run before either saved its log entry), both processed to the end:
\* two release_call_slot invocations and two retry signals
C12_Witness ==
    /\ run.campaign_id # NoCampaign
    /\ \A t \in {1, 2} :
          /\ cb[t].pc = "done"
          /\ cb[t].status \in RetryStatuses
          /\ releases[<<"cb", t>>] = 1
          /\ Len(retries[t]) = 1
    /\ Len(run.logs) = 1
    /\ C_TotalReleases = 2


\* status updates whose callback-log write has been issued
C_Logged == {t \in Cbs : cb[t].pc \notin {"idle", "log", "ignored", "rejected"}}

\* C13: the run's telephony_status_callbacks log holds one entry per status
\* update processed so far, each with the status of its update: no entry is
\* lost or overwritten, whatever the interleaving
C13_OneEntryPerUpdate ==
    /\ Len(run.logs) = Cardinality(C_Logged)
    /\ \A t \in C_Logged :
          \E i \in 1..Len(run.logs) : run.logs[i] = CallbackLogEntry(cb[t].status)


\* the checks of the inbound validation pipeline in the order of the claim
C_CheckOrder == <<"workflow", "account", "phone", "signature">>

\* the check whose failure gives the error
C_CheckOf(error) ==
    CASE error = WorkflowNotFound -> 1
      [] error \in {AccountValidationFailed, ProviderMismatch} -> 2
      [] error = PhoneNumberNotConfigured -> 3
      [] error = SignatureValidationFailed -> 4
      [] OTHER -> 0

\* C14: the pipeline evaluates workflow, account/provider, called number,
\* signature in that order and stops at the first failing check, whose error
\* it returns; in check 2 a missing account id or configuration gives
\* ACCOUNT_VALIDATION_FAILED, a stored provider other than the detected one
\* PROVIDER_MISMATCH, a rejected account id ACCOUNT_VALIDATION_FAILED
C14_OrderedShortCircuit ==
    /\ Len(inb.evaluated) <= Len(C_CheckOrder)
    /\ \A i \in 1..Len(inb.evaluated) : inb.evaluated[i] = C_CheckOrder[i]
    /\ C_CheckOf(inb.error) # 0 =>
          /\ Len(inb.evaluated) = C_CheckOf(inb.error)
          /\ inb.pc = "done"
          /\ inb.response = ValidationErrorResponse(inb.provider, inb.error)
    /\ (Len(inb.evaluated) >= 2 /\ inb.fault = "none") =>
          LET a == inb.account
          IN IF ~a.hasAccountId \/ a.raised \/ a.stored = NoConfig
             THEN inb.error = AccountValidationFailed
             ELSE IF a.stored # inb.provider THEN inb.error = ProviderMismatch
             ELSE IF ~a.accountOk THEN inb.error = AccountValidationFailed
             ELSE C_CheckOf(inb.error) \notin {1, 2}

\* check 2 failed on a stored provider other than the detected one, with an
\* account id that validate_account_id would also have rejected
C14_Witness ==
    /\ inb.pc = "done"
    /\ inb.error = ProviderMismatch
    /\ inb.evaluated = <<"workflow", "account">>
    /\ inb.account.hasAccountId /\ ~inb.account.accountOk
    /\ inb.account.stored \in FactoryVendors

\* the signature header of the detected vendor, when the request carries it
C_OwnHeader ==
    IF inb.provider = "twilio" /\ inb.xTwilio THEN "x_twilio_signature"
    ELSE IF inb.provider = "vobiz" /\ inb.xVobiz THEN "x_vobiz_signature"
    ELSE "none"

\* the signature step was evaluated and returned (no exception)
C_SignatureStepDone == Len(inb.evaluated) = 4 /\ inb.fault = "none"

\* C15 as stated: with any vendor signature header on the request the
\* pipeline succeeds only if the provider instance verified a signature
C15_AnyHeaderVerified ==
    (C_SignatureStepDone /\ (inb.xTwilio \/ inb.xVobiz)
        /\ inb.error # SignatureValidationFailed)
    => (inb.verified # "none" /\ inb.signatureOk)

\* C15: when the request carries the signature header of the detected vendor
\* (x-twilio-signature for Twilio, x-vobiz-signature for Vobiz) the pipeline
\* succeeds only if the provider instance verified it and otherwise returns
\* SIGNATURE_VALIDATION_FAILED; any other request passes the signature step
\* with nothing verified
C15_OwnHeaderVerified ==
    C_SignatureStepDone =>
        IF C_OwnHeader # "none"
        THEN /\ inb.verified = C_OwnHeader
             /\ inb.signatureOk <=> inb.error # SignatureValidationFailed
        ELSE /\ inb.verified = "none"
             /\ inb.error # SignatureValidationFailed

\* a Twilio request whose x-twilio-signature was verified and accepted
C15_Witness ==
    /\ C_SignatureStepDone
    /\ inb.provider = "twilio" /\ inb.xTwilio
    /\ inb.verified = "x_twilio_signature" /\ inb.signatureOk
    /\ inb.pc = "quota"

\* C16: when the handler has answered with anything but the provider's
\* inbound response, no CallRun was created
C16_NoRunOnFailure ==
    (inb.pc = "done" /\ inb.response.kind # "inbound_response") => ~run.exists

\* C17: every outcome of the webhook handler is a markup response: the
\* generic hangup for an undetected provider, a non-inbound direction and an
\* exception at any step, the matched provider's validation-error response
\* for a validation or quota failure, its inbound response otherwise
C17_AlwaysMarkup ==
    inb.pc = "done" =>
        /\ inb.response.kind \in
              {"generic_hangup", "validation_error", "inbound_response"}
        /\ inb.fault # "none" => inb.response = GenericHangup
        /\ (inb.fault = "none" /\ inb.provider = Undetected)
              => inb.response = GenericHangup
        /\ (inb.fault = "none" /\ inb.direction = "outbound")
              => inb.response = GenericHangup
        /\ (inb.fault = "none" /\ inb.error # Valid)
              => /\ inb.provider # Undetected
                 /\ inb.response = ValidationErrorResponse(inb.provider, inb.error)

\* an exception in response generation, after the run was created, answered
\* with the generic hangup
C17_Witness ==
    /\ inb.pc = "done"
    /\ inb.fault = "respond"
    /\ inb.response = GenericHangup

\* the vendors whose heuristic matched the request
C_Matching == {i \in 1..4 : inb.canHandle[<<"twilio", "vobiz", "vonage", "itniotech">>[i]]}

\* C18: detection returns the first of Twilio, Vobiz, Vonage, Itniotech whose
\* can_handle_webhook is true, null when none is, and never LiveKit
C18_FirstMatch ==
    /\ inb.provider # "livekit"
    /\ inb.pc \notin {"idle", "detect"} /\ inb.fault \notin {"parse", "detect"} =>
          IF C_Matching = {} THEN inb.provider = Undetected
          ELSE \E i \in C_Matching :
                  /\ \A j \in C_Matching : i <= j
                  /\ inb.provider = <<"twilio", "vobiz", "vonage", "itniotech">>[i]

\* the Vobiz and Itniotech heuristics both match, Twilio's does not
C18_Witness ==
    /\ inb.pc = "normalize"
    /\ ~inb.canHandle["twilio"]
    /\ inb.canHandle["vobiz"] /\ inb.canHandle["itniotech"]
    /\ inb.provider = "vobiz"

\* C19 as stated: load_config fails for no configuration and for an absent
\* or unrecognized discriminant, and otherwise returns the stored one
C19_FailsWhenAbsent ==
    factory.called =>
        IF factory.stored \in FactoryVendors
        THEN factory.config = factory.stored
        ELSE factory.config = ConfigError

\* C19: load_telephony_config fails for no configuration and for a
\* discriminant other than twilio, vonage, vobiz, cloudonix, itniotech; it
\* reads an absent discriminant as twilio; otherwise it returns the stored one
C19_LoadConfig ==
    factory.called =>
        IF factory.stored \in FactoryVendors THEN factory.config = factory.stored
        ELSE IF factory.stored = NoDiscriminant THEN factory.config = "twilio"
        ELSE factory.config = ConfigError

\* a configuration without discriminant, loaded as twilio
C19_Witness ==
    /\ factory.called
    /\ factory.stored = NoDiscriminant
    /\ factory.config = "twilio"

\* C20: for a stored configuration of any vendor variant, get_provider
\* returns an instance whose PROVIDER_NAME is the stored discriminant
C20_ProviderOfStored ==
    (factory.called /\ factory.stored \in FactoryVendors \cup {"livekit"})
    => factory.provider = factory.stored


\* the precondition checks of outbound initiation in the order of the claim
C_OutboundOrder == <<"provider", "quota", "number">>

\* the check whose failure gives the answer
C_OutboundCheckOf(response) ==
    CASE response = HttpError(400, "telephony_not_configured") -> 1
      [] response.kind = "http_exception" /\ response.status = 402 -> 2
      [] response = HttpError(400, "phone_number_missing") -> 3
      [] OTHER -> 0

\* C21: outbound initiation checks provider configured, quota, destination
\* number (the request's, else the test number) in that order, the first
\* failing check gives the error (400, 402, 400), and after a failed check
\* no CallRun was created and the provider's outbound API was not invoked
C21_PreconditionOrder ==
    /\ Len(out.evaluated) <= 3
    /\ \A i \in 1..Len(out.evaluated) : out.evaluated[i] = C_OutboundOrder[i]
    /\ C_OutboundCheckOf(out.response) # 0 =>
          /\ Len(out.evaluated) = C_OutboundCheckOf(out.response)
          /\ out.pc = "done"
          /\ out.created = 0 /\ ~out.newRun.exists /\ out.calls = 0
    /\ Len(out.evaluated) = 3 =>
          /\ out.number = (IF out.requestNumber # "" THEN out.requestNumber
                           ELSE out.testNumber)
          /\ (out.number = "") <=> (C_OutboundCheckOf(out.response) = 3)
    /\ (out.created > 0 \/ out.calls > 0) =>
          (Len(out.evaluated) = 3 /\ out.number # "")

\* no number in the request, the configured test number is used and the
\* vendor API is invoked
C21_Witness ==
    /\ out.calls = 1
    /\ out.requestNumber = "" /\ out.number = out.testNumber
    /\ out.number # ""

\* C22: a successful initiation without a run id creates one CallRun
\* (INITIALIZED, OUTBOUND, named WR-TEL-OUT- plus exactly 8 decimal digits),
\* invokes the vendor API once with a callback URL embedding the workflow,
\* user, run and organization identifiers, persists the provider metadata in
\* gathered_context and answers with the run's name; with a run id no run is
\* created and the existing one is used
C22_SuccessfulInitiation ==
    out.response.kind = "success" =>
        /\ out.calls = 1
        /\ out.webhook.workflow_id = "workflow" /\ out.webhook.user_id = "user"
        /\ out.webhook.organization_id = "organization"
        /\ out.metadata \subseteq out.gathered
        /\ out.response.detail = out.name
        /\ IF ~out.runIdSupplied
           THEN /\ out.created = 1
                /\ out.newRun.exists /\ out.newRun.state = INITIALIZED
                /\ out.call_type = "outbound"
                /\ out.webhook.workflow_run_id = "new_run"
                /\ Len(out.name) = 19
                /\ SubSeq(out.name, 1, 11)
                     = <<"W", "R", "-", "T", "E", "L", "-", "O", "U", "T", "-">>
                /\ \A i \in 12..19 :
                      out.name[i] \in {"0", "1", "2", "3", "4", "5", "6", "7", "8", "9"}
           ELSE /\ out.created = 0 /\ ~out.newRun.exists
                /\ run.exists
                /\ out.webhook.workflow_run_id = "supplied_run"

\* a success whose uuid prefix exceeds eight decimal digits
C22_Witness ==
    /\ out.response.kind = "success"
    /\ out.created = 1
    /\ out.name = <<"W", "R", "-", "T", "E", "L", "-", "O", "U", "T", "-",
                    "4", "7", "4", "8", "3", "6", "4", "7">>
    /\ out.metadata # {}

\* C23: every failure of outbound initiation is answered with a typed error
\* (an HTTPException with its status and detail)
C23_FailuresTyped ==
    (out.pc = "done" /\ out.response.kind # "success")
        => out.response.kind = "http_exception"


\* C24: every status callback is answered with HTTP 200 and a body whose
\* status is "success", "ok" or "error", whatever happened inside (run not
\* found, fault raised while processing the update)
C24_AlwaysOk ==
    \A t \in Cbs :
        CallbackAnswer(cb[t].pc).http # 0 =>
            /\ CallbackAnswer(cb[t].pc).http = 200
            /\ CallbackAnswer(cb[t].pc).status \in {"success", "ok", "error"}


\* the busy / no-answer updates of a campaign run
C_RetryUpdate(t) ==
    cb[t].status \in RetryStatuses /\ cb[t].snap.campaign_id # NoCampaign

\* C30 (as stated): when the retry-needed signal of a busy / no-answer update
\* is about to be published, the run is not persisted as COMPLETED
C30_NotCompletedAtPublication ==
    \A t \in Cbs : cb[t].pc = "publish" => run.state # COMPLETED

\* C30 (amended): within one busy / no-answer update of a campaign run the
\* effects occur in the order callback-log write, slot release, retry-needed
\* publication, final write (failure tags, COMPLETED): the release follows
\* the log write and precedes the publication, the publication follows the
\* one release and precedes this update's final write, and the final write
\* follows both
C30_OrderWithinUpdate ==
    [][\A t \in Cbs :
         /\ (run'.logs # run.logs /\ cb[t].pc = "log" /\ cb'[t].pc # "log") =>
                /\ releases[<<"cb", t>>] = 0 /\ retries[t] = <<>>
                /\ C_RetryUpdate(t) => cb'[t].pc = "release"
         /\ releases'[<<"cb", t>>] # releases[<<"cb", t>>] =>
                /\ cb[t].pc = "release"
                /\ t \in C_Logged
                /\ retries[t] = <<>>
                /\ cb'[t].pc \in {"publish", "complete", "faulted"}
         /\ retries'[t] # retries[t] =>
                /\ cb[t].pc = "publish"
                /\ releases[<<"cb", t>>] = 1
                /\ run' = run
                /\ cb'[t].pc \in {"complete", "faulted"}
         /\ (C_RetryUpdate(t) /\ cb[t].pc = "complete" /\ cb'[t].pc = "done") =>
                /\ releases[<<"cb", t>>] = 1
                /\ Len(retries[t]) = 1
                /\ run'.state = COMPLETED /\ run'.is_completed
                /\ run'.call_tags = cb[t].snap.call_tags \o FailureTags(cb[t].status)]_vars

\* a no-answer update of a campaign run, signal published, final write not
\* yet issued and the run not yet COMPLETED
C30_Witness ==
    \E t \in Cbs :
        /\ cb[t].pc = "complete" /\ cb[t].status = NoAnswer
        /\ cb[t].snap.campaign_id # NoCampaign
        /\ releases[<<"cb", t>>] = 1
        /\ Len(retries[t]) = 1
        /\ run.state # COMPLETED /\ ~run.is_completed


\* C26: LiveKit's handle_websocket closes the connection with a code other
\* than 1000 and starts no pipeline; and a media-session connect for a
\* LiveKit organization is closed at the provider resolution, before the
\* RUNNING write and before any handoff, so it leaves no run in RUNNING
\* without a media session
C26_LiveKitFailsFast ==
    /\ \A handshake \in HandshakeOutcomes :
          /\ HandleWebsocket("livekit", handshake).pc = "closed"
          /\ HandleWebsocket("livekit", handshake).code \notin {NotClosed, 1000}
    /\ \A c \in Conns :
          ws[c].stored = "livekit" =>
              /\ ws[c].pc = "closed"
              /\ ws[c].code \notin {NotClosed, 1000}
              /\ ~ws[c].wroteRunning /\ ~ws[c].handedOff

\* a connect for a LiveKit organization on an INITIALIZED run that has its
\* provider type: closed, the run still INITIALIZED
C26_Witness ==
    \E c \in Conns :
        /\ ws[c].stored = "livekit" /\ ws[c].pc = "closed"
        /\ run.exists /\ run.provider # NoProvider
        /\ run.state = INITIALIZED


\* C25: validate_config is true iff every vendor-required field is
\* non-empty: for LiveKit server_url, api_key, api_secret and sip_trunk_id
\* (from_numbers not required), for Itniotech api_key, api_secret and a
\* non-empty from_numbers list
C25_ValidateConfig ==
    call.method = "validate_config" =>
        IF call.provider = "livekit"
        THEN call.output <=>
                (\A f \in {"server_url", "api_key", "api_secret", "sip_trunk_id"} :
                     call.input[f] # "")
        ELSE call.output <=>
                (/\ \A f \in {"api_key", "api_secret"} : call.input[f] # ""
                 /\ Len(call.input.from_numbers) > 0)

\* a LiveKit configuration with its four fields and no from_numbers is
\* valid
C25_Witness ==
    /\ call.method = "validate_config" /\ call.provider = "livekit"
    /\ call.input.from_numbers = <<>>
    /\ call.output = TRUE

\* the message the table fixes for an error, GENERAL_AUTH_FAILED's for an
\* error the table lacks
C_TableMessage(error_type) ==
    IF error_type \in TableErrors THEN [message_for |-> error_type]
    ELSE [message_for |-> GeneralAuthFailed]

\* C27: every provider's generate_validation_error_response renders the
\* message the table fixes for the error (GENERAL_AUTH_FAILED's for an
\* unlisted one) and never the raw error identifier
C27_FixedMessage ==
    call.method = "generate_validation_error_response" =>
        /\ \E i \in 1..Len(call.output.content) :
              call.output.content[i] = C_TableMessage(call.input)
        /\ \A i \in 1..Len(call.output.content) :
              call.output.content[i] # [raw |-> call.input]

\* C28: Twilio normalization maps CallSid, CallStatus, From, To, Direction
\* to call_id, status, from_number, to_number, direction, takes duration
\* from CallDuration when present and non-empty, otherwise from Duration,
\* and passes the payload through unchanged as extra
C28_FromTwilio ==
    call.method = "from_twilio" =>
        LET data == call.input
            update == call.output
        IN /\ data.CallSid # Absent => update.call_id = data.CallSid
           /\ data.CallStatus # Absent => update.status = data.CallStatus
           /\ data.From # Absent => update.from_number = data.From
           /\ data.To # Absent => update.to_number = data.To
           /\ data.Direction # Absent => update.direction = data.Direction
           /\ data.CallDuration \notin {Absent, ""} =>
                  update.duration = data.CallDuration
           /\ (data.CallDuration \in {Absent, ""} /\ data.Duration # Absent) =>
                  update.duration = data.Duration
           /\ update.extra = data

\* the fixture {CallSid: "X", CallStatus: "completed", CallDuration: "42"}
C28_Witness ==
    /\ call.method = "from_twilio"
    /\ call.input = [CallSid |-> "X", CallStatus |-> "completed",
                     CallDuration |-> "42", Duration |-> Absent,
                     From |-> Absent, To |-> Absent, Direction |-> Absent]
    /\ call.output.call_id = "X" /\ call.output.status = "completed"
    /\ call.output.duration = "42"

\* the configured numbers of a stored configuration
C_Configured(config) ==
    {config.from_numbers[i] : i \in 1..Len(config.from_numbers)}

\* C29: the called-number check succeeds iff some configured from_number
\* matches the called number; it fails with no stored configuration and on
\* a lookup error; "+14155551234" matches "4155551234" (US) and does not
\* match "+914155551234"
C29_CalledNumberCheck ==
    /\ call.method = "verify_organization_phone_number" =>
          (call.output <=>
              /\ ~call.input.raised /\ call.input.config.exists
              /\ \E n \in C_Configured(call.input.config) :
                    NumbersMatch(call.input.phone_number, n,
                                 call.input.to_country, call.input.from_country))
    /\ (/\ call.method = "verify_organization_phone_number"
        /\ call.input.phone_number = UsPlus
        /\ ~call.input.raised /\ call.input.config.exists
        /\ C_Configured(call.input.config) = {InPlus}) => ~call.output
    /\ (/\ call.method = "verify_organization_phone_number"
        /\ call.input.phone_number = UsPlus
        /\ ~call.input.raised /\ call.input.config.exists
        /\ UsNational \in C_Configured(call.input.config)
        /\ call.input.to_country = "US") => call.output

\* "+14155551234" is called, the organization's numbers are
\* "+914155551234" and then "4155551234", the called country is US: the
\* second configured number matches
C29_Witness ==
    /\ call.method = "verify_organization_phone_number"
    /\ call.input.phone_number = UsPlus
    /\ call.input.config.from_numbers = <<InPlus, UsNational>>
    /\ call.input.to_country = "US"
    /\ call.output = TRUE


\* the frame the handshake awaits as its start frame: the first one, or the
\* second one when the first is a "connected" event; 0 when it never came
C_Awaited(messages) ==
    IF Len(messages) = 0 THEN 0
    ELSE IF messages[1].event # "connected" THEN 1
    ELSE IF Len(messages) >= 2 THEN 2
    ELSE 0

C_HasStream(frame) == \E k \in {"streamSid", "streamId", "stream_id"} : frame[k] # ""
C_HasCall(frame) == \E k \in {"callSid", "callId", "call_id"} : frame[k] # ""

C32_CreatedRunPassesGuard ==
    /\ out.created > 0 =>
          /\ out.newRun.exists /\ out.newRun.state = INITIALIZED
          /\ out.newRun.provider = out.mode
          /\ out.mode = GetTelephonyProvider(factory.stored)
          /\ ConnectGuard(out.newRun, TRUE, OrgProviderOf(factory.stored)) = "ok"
    /\ inb.call_type = "inbound" =>
          /\ run.exists /\ run.state = INITIALIZED
          /\ run.provider = inb.mode
          /\ inb.mode = inb.provider /\ inb.provider \in DetectableSet
          /\ ConnectGuard(run, TRUE, OrgProviderOf(inb.account.stored)) = "ok"

\* an accepted Itniotech webhook created its run
C32_Witness ==
    /\ inb.call_type = "inbound" /\ inb.pc = "done"
    /\ inb.provider = "itniotech"
    /\ run.provider = "itniotech" /\ run.state = INITIALIZED


\* the statuses _process_status_update acts on beyond logging
C_TerminalStatuses == {Completed, Failed, Busy, NoAnswer, Canceled}

\* C33: a status update whose status is not completed, failed, busy,
\* no-answer or canceled (a ringing update, a Vobiz ring callback) only
\* appends one entry to the callback log: state, is_completed and call_tags
\* are unchanged and neither slot release nor retry publication is invoked
C33_NonTerminalOnlyLogs ==
    [][\A t \in Cbs :
         (cb'[t].pc # "idle" /\ cb'[t].status \notin C_TerminalStatuses) =>
            /\ cb'[t].pc \in {"log", "done", "ignored", "rejected"}
            /\ releases'[<<"cb", t>>] = 0 /\ retries'[t] = <<>>
            /\ (cb[t].pc = "log" /\ cb'[t].pc # "log") =>
                  /\ cb'[t].pc = "done"
                  /\ run'.logs = Append(cb[t].snap.logs,
                                        CallbackLogEntry(cb[t].status))
                  /\ run'.state = run.state
                  /\ run'.is_completed = run.is_completed
                  /\ run'.call_tags = run.call_tags
                  /\ releases' = releases /\ retries' = retries]_vars

\* a ringing update of a campaign run was processed: one log entry, the run
\* neither completed nor released
C33_Witness ==
    \E t \in Cbs :
        /\ cb[t].pc = "done" /\ cb[t].status = Ringing
        /\ run.campaign_id # NoCampaign
        /\ Len(run.logs) = 1 /\ run.logs[1].status = Ringing
        /\ ~run.is_completed /\ run.state = INITIALIZED
        /\ C_TotalReleases = 0


\* C34: a status callback whose signature header the provider fails to
\* verify never mutates the run (no log entry, state and is_completed
\* unchanged, no slot release, no retry publication) and does nothing
\* afterwards; a callback with no signature header is processed, whatever a
\* verification would have said
C34_UnverifiedNeverMutates ==
    /\ \A valid \in BOOLEAN : AfterReceive(TRUE, FALSE, valid) = "log"
    /\ AfterReceive(TRUE, TRUE, FALSE) = "rejected"
    /\ [][\A t \in Cbs :
            cb'[t].pc = "rejected" =>
               /\ cb[t].pc \in {"idle", "rejected"}
               /\ cb[t].pc = "idle" =>
                     (run' = run /\ releases' = releases /\ retries' = retries)
               /\ cb[t].pc = "rejected" => cb'[t] = cb[t]
               /\ releases'[<<"cb", t>>] = 0 /\ retries'[t] = <<>>]_vars

\* a busy callback of a campaign run was rejected for its signature: the
\* run is as it was created
C34_Witness ==
    \E t \in Cbs :
        /\ cb[t].pc = "rejected" /\ cb[t].status = Busy
        /\ run.exists /\ run.campaign_id # NoCampaign
        /\ run.logs = <<>> /\ run.state = INITIALIZED /\ ~run.is_completed
        /\ C_TotalReleases = 0


\* C35: when release_call_slot or publish_retry_needed raises while a
\* terminal status update of a campaign run is processed, the callback has
\* already written its log entry and stops there: the step leaves the run
\* as it was (state, is_completed) and the callback never writes again; the
\* run becomes COMPLETED only by the completing write of a terminal status
\* update or of the pipeline completion hook
C35_FaultedNeverCompletes ==
    [][/\ \A t \in Cbs :
            /\ (cb'[t].pc = "faulted" /\ cb[t].pc # "faulted") =>
                  /\ cb[t].pc \in {"release", "publish"}
                  /\ cb[t].status \in C_TerminalStatuses
                  /\ cb[t].snap.campaign_id # NoCampaign
                  /\ t \in C_Logged
                  /\ run' = run
            /\ cb[t].pc = "faulted" => cb'[t] = cb[t]
       /\ (run'.exists /\ run'.state = COMPLETED
              /\ ~(run.exists /\ run.state = COMPLETED)) =>
             \/ \E t \in Cbs : /\ cb[t].pc = "complete" /\ cb'[t].pc = "done"
                               /\ cb[t].status \in C_TerminalStatuses
             \/ \E c \in Conns : ws[c].pc = "finished_write" /\ ws'[c].pc # "finished_write"
      ]_vars

\* the collaborator raised for a busy callback of a campaign run: its log
\* entry is stored and the run is not completed
C35_Witness ==
    \E t \in Cbs :
        /\ cb[t].pc = "faulted" /\ cb[t].status = Busy
        /\ run.exists /\ run.campaign_id # NoCampaign
        /\ run.logs = <<CallbackLogEntry(Busy)>>
        /\ ~run.is_completed /\ run.state = INITIALIZED


\* a connect whose vendor handshake failed after its RUNNING write: the
\* provider closed it (4400) or handle_websocket raised (1011)
C_HandshakeFailed(c) ==
    /\ ws[c].pc = "closed" /\ ws[c].wroteRunning /\ ws[c].handedOff
    /\ ws[c].code \in {CloseBadRequest, CloseInternalError}
    /\ ws[c].kind # AlreadyCompleted

\* C36: when the vendor handshake fails after websocket_endpoint has written
\* RUNNING, the failing step writes nothing and the connect takes no further
\* step: the run is not set back to INITIALIZED and is not completed by this
\* path (it stays RUNNING unless another handler completed it); every connect
\* attempt made afterwards, for the existing workflow of the run, is closed
\* with 4409, writes nothing and is not handed off
C36_FailedHandshakeLeavesRunning ==
    [][/\ \A c \in Conns :
            /\ (ws[c].pc = "handle_websocket" /\ ws'[c].pc = "closed") =>
                  /\ ws[c].wroteRunning
                  /\ run' = run
                  /\ run'.state = RUNNING \/ run'.is_completed
            /\ ws[c].pc = "closed" => ws'[c] = ws[c]
       /\ (\E d \in Conns : C_HandshakeFailed(d)) =>
             /\ run'.state # INITIALIZED
             /\ \A c \in Conns :
                   (ws[c].pc = "idle" /\ ws'[c].pc # "idle" /\ ws'[c].wfExists) =>
                      /\ ws'[c].pc = "closed" /\ ws'[c].code = CloseConflict
                      /\ ~ws'[c].wroteRunning /\ ~ws'[c].handedOff
                      /\ run' = run
      ]_vars

\* a handshake was refused by the provider after the RUNNING write, the run
\* is still RUNNING and a further connect was closed with 4409
C36_Witness ==
    \E c, d \in Conns :
        /\ c # d
        /\ C_HandshakeFailed(d) /\ ws[d].code = CloseBadRequest
        /\ ws[c].pc = "closed" /\ ws[c].code = CloseConflict /\ ws[c].wfExists
        /\ run.state = RUNNING /\ ~run.is_completed


C_OtherSessions == RunPipelineNames \ {"run_pipeline_livekit"}

\* C37: for a LiveKit session (run_pipeline_livekit) the initial LLM context
\* frame is not queued at pipeline start but when the first participant
\* joins, and at most once; for every other transport it is queued exactly
\* once, at pipeline start
C37_InitialContextQueuedOnce ==
    /\ pipe.entry = "run_pipeline_livekit" =>
          /\ pipe.queuedAtStart = 0
          /\ pipe.queuedAtJoin <= 1
    /\ pipe.entry \in C_OtherSessions =>
          /\ pipe.queuedAtJoin = 0
          /\ pipe.queuedAtStart = (IF pipe.started THEN 1 ELSE 0)


====
